---------------------------- MODULE Spec2Model ----------------------------
(***************************************************************************)
(* A model of the tcp-udp-router core: the resource registry               *)
(* (core/resourceManager.ts), the error and retry engine                   *)
(* (core/errorHandler.ts), the security manager's rate limiter and IP      *)
(* filter (security/securityManager.ts, security/securityMiddleware.ts),   *)
(* the session store (core/sessionStore.ts), the router (core/router.ts),  *)
(* the TCP/UDP transports (net/tcpServer.ts, net/udpServer.ts) and the     *)
(* plugin manager (plugins/pluginManager.ts).                              *)
(*                                                                         *)
(* Each component has its own variables, initial predicate and next-state  *)
(* relation; a component's specification holds the other components still. *)
(***************************************************************************)
EXTENDS Integers, Sequences, FiniteSets, TLC

VARIABLES
  \* ---- ResourceManager (core/resourceManager.ts)
  resources,        \* Map<string, Resource> in insertion order: Seq of [id, type, isDisposed]
  isShuttingDown,   \* ResourceManager.isShuttingDown
  tasks,            \* the dispose calls suspended at an await
  disposeCalls,     \* per resource id, how often its dispose action was invoked
  opsStarted,       \* number of registry calls made so far
  lastResult,       \* what the registry call that completed last returned
  completedFor,     \* ids for which a disposeResource(id) call has completed
  lastAllStats,     \* <<stats>> of the disposeAllResources call that completed last
  \* ---- ErrorHandler (core/errorHandler.ts)
  call,             \* the executeWithRetry call in progress: its locals and its outcome
  errorCounts,      \* ErrorHandler.errorCounts
  retryCalls,       \* number of executeWithRetry calls made so far
  \* ---- SecurityManager (security/securityManager.ts)
  now,              \* Date.now()
  enableRateLimiting,  \* config.enableRateLimiting
  defaultRateLimit, \* config.defaultRateLimit: [windowMs, maxRequests]
  rateLimitCache,   \* Map<string, RateLimitRule>
  ipRules,          \* config.ipRules, in insertion order
  rateChecks,       \* number of checkRateLimit and setRateLimit calls made so far
  lastCheck,        \* what the checkRateLimit call made last was given and returned
  windowCalls,      \* per identifier, the checkRateLimit calls made in its current window
  limitStable,      \* per identifier, whether its limit is the one its window started with
  customLimit,      \* per identifier, the maxRequests of the last setRateLimit call, 0 if none
  enableIPFiltering,   \* config.enableIPFiltering
  blockedIPs,       \* SecurityManager.blockedIPs
  blockTimers,      \* the timers blockIP has set and that have not fired: [ip, due]
  blockedUntil,     \* per IP, what the blockIP or unblockIP call made last for it asked for
  ipConnections,    \* SecurityManager.ipConnections
  gateRuns,         \* per peer and protocol, what SecurityPipeline.process returned last
  lastIPCheck,      \* what the checkIPAccess call made last was given and returned
  lastConn,         \* what the checkConnectionLimit or releaseConnection call made last did
  lastGate,         \* what the SecurityPipeline.process call made last evaluated
  connLedger,       \* per IP, the connections granted and released so far
  \* ---- TCPServer and UDPServer (net/tcpServer.ts, net/udpServer.ts)
  tcpShuttingDown,  \* TCPServer.isShuttingDown
  udpShuttingDown,  \* UDPServer.isShuttingDown
  sockets,          \* the TCP sockets accepted so far: Seq of [peer, open]
  activeConnections,   \* TCPServer.activeConnections: the session ids it holds
  activeSessions,   \* UDPServer.activeSessions: per session key, its message count
  registry,         \* the servers' own ResourceManagers: resource id -> isDisposed
  inFlight,         \* the servers' executeWithRetry calls that have not settled
  callsStarted,     \* number of executeWithRetry calls the servers made so far
  handed,           \* the pipeline.process invocations made so far
  serverErrorCounts,   \* errorCounts of each server's own ErrorHandler
  netEvents,        \* number of socket events and security calls so far
  received,         \* per TCP socket, the chunks its data handler was given
  socketWrites,     \* per TCP socket, what the server wrote to it
  \* ---- SessionStore (core/sessionStore.ts)
  sessions,         \* SessionStore.sessions: the TCP session ids it holds
  udpSessions,      \* SessionStore.udpSessions: per session key, its Connection
  lastUdp,          \* what the getOrCreateUdpSession call made last was given and returned
  \* ---- PluginManager (plugins/examplePlugin.ts)
  plugins,          \* Map<string, BasePlugin> in insertion order: Seq of [name, hasProcess]
  pluginFactories,  \* Map<string, PluginFactory> in insertion order: Seq of [name, hasProcess]
  pluginConfigs,    \* Map<string, PluginConfig>: per name, its enabled flag or no entry
  processing,       \* the processMessage call in progress: its locals and what it returned
  pmLog,            \* the process steps that call invoked, in order
  pluginCalls,      \* number of processMessage calls made so far
  lastConfigCall,   \* what the enablePlugin or disablePlugin call made last returned
  lifecycle,        \* the lifecycle call made last: its loop position and the hooks it invoked
  hooksRun,         \* per plugin name, the lifecycle hooks invoked on it so far, in order
  initFailed,       \* the names of the plugins whose initialization threw
  \* ---- Router (core/router.ts)
  routes,           \* Router.routes, in registration order: Seq of [name, rule, handler]
  routing,          \* the route call made last: what it evaluated and what it returned
  \* ---- main (index.ts)
  shutdown,         \* where gracefulShutdown is: not called, at an await, or at process.exit
  \* ---- Pipeline (pipeline/index.ts)
  middlewares,      \* the stages registered with use, in registration order
  runs,             \* the process calls made so far: their index, frames and invocations
  \* ---- SecurityManager: health-check auth (security/securityManager.ts)
  healthConfig,     \* config.enableHealthCheckAuth and config.healthCheckSecret
  lastAuth          \* what the validateHealthCheckAuth call made last was given and returned

rmVars == <<resources, isShuttingDown, tasks, disposeCalls, opsStarted,
            lastResult, completedFor, lastAllStats>>

ehVars == <<call, errorCounts, retryCalls>>

smVars == <<now, enableRateLimiting, defaultRateLimit, rateLimitCache, ipRules,
            rateChecks, lastCheck, windowCalls, limitStable, customLimit>>

blockVars == <<blockTimers, blockedUntil>>

gateVars == <<enableIPFiltering, blockedIPs, ipConnections, gateRuns, blockVars>>

\* the servers' state but the event count
netRest == <<tcpShuttingDown, udpShuttingDown, sockets, activeConnections,
             activeSessions, registry, inFlight, callsStarted, handed,
             serverErrorCounts>>

netVars == <<netRest, netEvents>>

\* what the calls of the Security Gate made last returned
gateObs == <<lastIPCheck, lastConn, lastGate, connLedger>>

\* what the lifecycle calls of the PluginManager did
lifeVars == <<lifecycle, hooksRun, initFailed>>

plugVars == <<plugins, pluginFactories, pluginConfigs, processing, pmLog, pluginCalls,
              lastConfigCall, lifeVars>>

routerVars == <<routes, routing>>

\* the components that no other component reads
appVars == <<plugVars, routerVars>>

udpVars == <<udpSessions, lastUdp>>

storeVars == <<sessions, udpVars>>

\* what the TCP sockets carried
ioVars == <<received, socketWrites>>

sideVars == <<storeVars, ioVars>>

pipeVars == <<middlewares, runs>>

\* the process and the pipeline it creates
healthVars == <<healthConfig, lastAuth>>

mainVars == <<shutdown, pipeVars, healthVars>>

vars == <<rmVars, ehVars, smVars, gateVars, gateObs, netVars, appVars, sideVars,
          mainVars>>

\* what an action of one component leaves alone
notRM == <<ehVars, smVars, gateVars, gateObs, netVars, appVars, sideVars, mainVars>>
notEH == <<rmVars, smVars, gateVars, gateObs, netVars, appVars, sideVars, mainVars>>
notSM == <<rmVars, ehVars, gateVars, gateObs, netVars, appVars, sideVars, mainVars>>
notNet == <<rmVars, ehVars, gateObs, appVars, sideVars, mainVars>>
notNetSide == <<rmVars, ehVars, gateObs, appVars, mainVars>>
notGate == <<rmVars, ehVars, appVars, sideVars, mainVars>>
notApp == <<rmVars, ehVars, smVars, gateVars, gateObs, netVars, sideVars, mainVars>>
notStore == <<rmVars, ehVars, smVars, gateVars, gateObs, netVars, ioVars, appVars, mainVars>>
notPipe == <<rmVars, ehVars, smVars, gateVars, gateObs, netVars, appVars, sideVars, shutdown,
            healthVars>>
notHealth == <<rmVars, ehVars, smVars, gateVars, gateObs, netVars, appVars, sideVars, shutdown,
              pipeVars>>
notLife == <<notApp, routerVars>>
notPlug == <<notLife, lifeVars, pluginFactories>>

-----------------------------------------------------------------------------
(* Bounds of the model. *)

MaxResources == 2
MaxOps == 3
MaxRetriesBound == 2
MaxRetryCalls == 1
MaxBackoffRetries == 6
MaxWords == 1
MaxRequests == 2
MaxWindow == 1
MaxTime == 2
MaxChecks == 3
MaxSockets == 2
MaxCalls == 2
MaxRules == 2
MaxConnectionsPerIP == 1
MaxNetEvents == 4

-----------------------------------------------------------------------------
(***************************************************************************)
(* ResourceManager                                                         *)
(***************************************************************************)

ResourceIds == 1..MaxResources
ResourceTypes == {"tcp_connection", "udp_session"}

NoResult == [op |-> "none"]

RegisteredIds == {resources[i].id : i \in DOMAIN resources}

\* this.resources.get(resourceId)
IndexOf(id) == CHOOSE i \in DOMAIN resources : resources[i].id = id

getResource(id) == resources[IndexOf(id)]

\* resource.isDisposed = true, on the resource object the registry holds
MarkDisposed(res, id) ==
  [i \in DOMAIN res |->
     IF res[i].id = id THEN [res[i] EXCEPT !.isDisposed = TRUE] ELSE res[i]]

\* Array.from(this.resources.values()).filter(r => !r.isDisposed), in map order
RECURSIVE UndisposedIds(_, _)
UndisposedIds(res, types) ==
  IF res = <<>> THEN <<>>
  ELSE LET r == Head(res)
           rest == UndisposedIds(Tail(res), types)
       IN IF ~r.isDisposed /\ r.type \in types THEN <<r.id>> \o rest ELSE rest

SeqToSet(s) == {s[i] : i \in DOMAIN s}

getStats ==
  [totalResources |-> Len(resources),
   resourcesByType |->
     [t \in ResourceTypes |->
        Cardinality({i \in DOMAIN resources : resources[i].type = t})],
   disposedResources |->
     Cardinality({i \in DOMAIN resources : resources[i].isDisposed}),
   activeResources |->
     Cardinality({i \in DOMAIN resources : ~resources[i].isDisposed})]

\* The part of disposeResource that runs before its await: what the lookup
\* and the isDisposed test decide.
DisposeEntry(id) ==
  IF id \notin RegisteredIds THEN "notfound"
  ELSE IF getResource(id).isDisposed THEN "already"
  ELSE "invoke"

\* What disposeResource does when the awaited dispose action has settled.
DisposeSettled(res, id, threw) ==
  IF threw THEN res ELSE MarkDisposed(res, id)

DisposeReturn(threw) == ~threw

RegistrationRefused_OnlyDuplicates(id) == id \in RegisteredIds

\* the two early returns of registerResource
RegistrationRefused(id) == isShuttingDown \/ id \in RegisteredIds

registerResource(id, type) ==
  /\ UNCHANGED notRM
  /\ opsStarted < MaxOps
  /\ opsStarted' = opsStarted + 1
  /\ IF RegistrationRefused(id)
       THEN resources' = resources
       ELSE resources' = Append(resources, [id |-> id, type |-> type, isDisposed |-> FALSE])
  /\ lastResult' = [op |-> "registerResource", rid |-> id,
                    registered |-> ~RegistrationRefused(id)]
  /\ UNCHANGED <<isShuttingDown, tasks, disposeCalls, completedFor, lastAllStats>>

\* disposeResource(id), up to its await (or to its early return)
disposeResourceCall(id) ==
  /\ UNCHANGED notRM
  /\ opsStarted < MaxOps
  /\ opsStarted' = opsStarted + 1
  /\ LET entry == DisposeEntry(id)
         late == id \in completedFor
     IN IF entry = "invoke"
          THEN \E threw \in BOOLEAN :
                 /\ disposeCalls' = [disposeCalls EXCEPT ![id] = @ + 1]
                 /\ tasks' = tasks \cup
                      {[tid |-> opsStarted, op |-> "disposeResource", rid |-> id,
                        threw |-> threw, late |-> late, inner |-> "invoke",
                        queue |-> <<>>, pending |-> {}, count |-> 0]}
                 /\ UNCHANGED <<lastResult, completedFor>>
          ELSE /\ lastResult' = [op |-> "disposeResource", rid |-> id,
                                 found |-> entry # "notfound",
                                 ret |-> entry = "already",
                                 isDisposed |-> entry = "already",
                                 late |-> late, invoked |-> FALSE]
               /\ completedFor' = IF entry = "already" THEN completedFor \cup {id}
                                  ELSE completedFor
               /\ UNCHANGED <<tasks, disposeCalls>>
  /\ UNCHANGED <<resources, isShuttingDown, lastAllStats>>

\* disposeResource(id), from its await to its return
disposeResourceResume(t) ==
  /\ UNCHANGED notRM
  /\ t \in tasks
  /\ t.op = "disposeResource"
  /\ resources' = DisposeSettled(resources, t.rid, t.threw)
  /\ tasks' = tasks \ {t}
  /\ lastResult' = [op |-> "disposeResource", rid |-> t.rid, found |-> TRUE,
                    ret |-> DisposeReturn(t.threw),
                    isDisposed |-> resources'[IndexOf(t.rid)].isDisposed,
                    late |-> t.late, invoked |-> TRUE]
  /\ completedFor' = completedFor \cup {t.rid}
  /\ UNCHANGED <<isShuttingDown, disposeCalls, opsStarted, lastAllStats>>

\* disposeResourcesByType(type), up to the await of its first disposeResource
disposeResourcesByTypeCall(type) ==
  /\ UNCHANGED notRM
  /\ opsStarted < MaxOps
  /\ opsStarted' = opsStarted + 1
  /\ LET resourcesToDispose == UndisposedIds(resources, {type})
     IN IF resourcesToDispose = <<>>
          THEN /\ lastResult' = [op |-> "disposeResourcesByType", ret |-> 0]
               /\ UNCHANGED <<tasks, disposeCalls>>
          ELSE \E threw \in BOOLEAN :
                 LET id == Head(resourcesToDispose)
                 IN /\ disposeCalls' = [disposeCalls EXCEPT ![id] = @ + 1]
                    /\ tasks' = tasks \cup
                         {[tid |-> opsStarted, op |-> "disposeResourcesByType",
                           rid |-> id, threw |-> threw, late |-> FALSE,
                           inner |-> "invoke", queue |-> Tail(resourcesToDispose),
                           pending |-> {}, count |-> 0]}
                    /\ UNCHANGED lastResult
  /\ UNCHANGED <<resources, isShuttingDown, completedFor, lastAllStats>>

\* disposeResourcesByType: the awaited disposeResource returns, the loop counts
\* it and calls disposeResource for the next resource of its snapshot
disposeResourcesByTypeResume(t) ==
  /\ UNCHANGED notRM
  /\ t \in tasks
  /\ t.op = "disposeResourcesByType"
  /\ LET settled == IF t.inner = "invoke"
                      THEN DisposeSettled(resources, t.rid, t.threw)
                      ELSE resources
         returned == IF t.inner = "invoke" THEN DisposeReturn(t.threw)
                     ELSE t.inner = "already"
         disposedCount == IF returned THEN t.count + 1 ELSE t.count
     IN /\ resources' = settled
        /\ completedFor' = IF t.inner = "notfound" THEN completedFor
                           ELSE completedFor \cup {t.rid}
        /\ IF t.queue = <<>>
             THEN /\ tasks' = tasks \ {t}
                  /\ lastResult' = [op |-> "disposeResourcesByType", ret |-> disposedCount]
                  /\ UNCHANGED disposeCalls
             ELSE LET id == Head(t.queue)
                      entry == IF settled[IndexOf(id)].isDisposed THEN "already"
                               ELSE "invoke"
                  IN /\ \E threw \in (IF entry = "invoke" THEN BOOLEAN ELSE {FALSE}) :
                          tasks' = (tasks \ {t}) \cup
                            {[t EXCEPT !.rid = id, !.threw = threw, !.inner = entry,
                                       !.queue = Tail(t.queue), !.count = disposedCount]}
                     /\ disposeCalls' = IF entry = "invoke"
                                          THEN [disposeCalls EXCEPT ![id] = @ + 1]
                                          ELSE disposeCalls
                     /\ UNCHANGED lastResult
  /\ UNCHANGED <<isShuttingDown, opsStarted, lastAllStats>>

\* disposeAllResources, up to `await Promise.all(disposalPromises)`: the flag is
\* set and the dispose action of every undisposed resource is invoked
disposeAllResourcesCall ==
  /\ UNCHANGED notRM
  /\ opsStarted < MaxOps
  /\ opsStarted' = opsStarted + 1
  /\ isShuttingDown' = TRUE
  /\ LET snapshot == SeqToSet(UndisposedIds(resources, ResourceTypes))
     IN /\ disposeCalls' = [id \in ResourceIds |->
                              IF id \in snapshot THEN disposeCalls[id] + 1
                              ELSE disposeCalls[id]]
        /\ \E throwers \in SUBSET snapshot :
             tasks' = tasks \cup
               {[tid |-> opsStarted, op |-> "disposeAllResources", rid |-> 0,
                 threw |-> FALSE, late |-> FALSE, inner |-> "fulfilled", queue |-> <<>>,
                 pending |-> {[rid |-> id, threw |-> id \in throwers] : id \in snapshot},
                 count |-> 0]}
  /\ UNCHANGED <<resources, lastResult, completedFor, lastAllStats>>

DisposalSettles_Rethrows(threw) == IF threw THEN "rejected" ELSE "fulfilled"

\* how the promise of a mapped callback settles: its catch block returns
\* { success: false, ... } when the dispose action threw
DisposalSettles(threw) == "fulfilled"

\* how Promise.all settles, given how it stood and how one more promise settles
PromiseAll(standing, settles) ==
  IF standing = "rejected" \/ settles = "rejected" THEN "rejected" ELSE "fulfilled"

\* disposeAllResources: one of the mapped callbacks resumes after its await
disposeAllResourcesSettle(t, p) ==
  /\ UNCHANGED notRM
  /\ t \in tasks
  /\ t.op = "disposeAllResources"
  /\ p \in t.pending
  /\ resources' = DisposeSettled(resources, p.rid, p.threw)
  /\ tasks' = (tasks \ {t}) \cup
                {[t EXCEPT !.pending = @ \ {p},
                           !.inner = PromiseAll(@, DisposalSettles(p.threw))]}
  /\ UNCHANGED <<isShuttingDown, disposeCalls, opsStarted, lastResult,
                 completedFor, lastAllStats>>

\* disposeAllResources: Promise.all has settled, return this.getStats() or
\* throw what Promise.all rejected with
disposeAllResourcesReturn(t) ==
  /\ UNCHANGED notRM
  /\ t \in tasks
  /\ t.op = "disposeAllResources"
  /\ t.pending = {}
  /\ tasks' = tasks \ {t}
  /\ lastResult' = [op |-> "disposeAllResources", settled |-> t.inner,
                    ret |-> getStats, previous |-> lastAllStats]
  /\ lastAllStats' = <<getStats>>
  /\ UNCHANGED <<resources, isShuttingDown, disposeCalls, opsStarted, completedFor>>

InitRM ==
  /\ resources = <<>>
  /\ isShuttingDown = FALSE
  /\ tasks = {}
  /\ disposeCalls = [id \in ResourceIds |-> 0]
  /\ opsStarted = 0
  /\ lastResult = NoResult
  /\ completedFor = {}
  /\ lastAllStats = <<>>

NextRM ==
  \/ \E id \in ResourceIds, type \in ResourceTypes : registerResource(id, type)
  \/ \E id \in ResourceIds : disposeResourceCall(id)
  \/ \E t \in tasks : disposeResourceResume(t)
  \/ \E type \in ResourceTypes : disposeResourcesByTypeCall(type)
  \/ \E t \in tasks : disposeResourcesByTypeResume(t)
  \/ disposeAllResourcesCall
  \/ \E t \in tasks : \E p \in t.pending : disposeAllResourcesSettle(t, p)
  \/ \E t \in tasks : disposeAllResourcesReturn(t)

-----------------------------------------------------------------------------
(***************************************************************************)
(* ErrorHandler                                                            *)
(***************************************************************************)

ErrorTypes == {"connection_error", "timeout_error", "processing_error",
               "resource_error", "plugin_error", "network_error",
               "validation_error", "unknown_error"}

\* the constructor's default RetryConfig
DefaultMaxRetries == 3
BaseDelay == 1000
MaxDelay == 30000
BackoffMultiplier == 2
RetryableErrors == {"network_error", "timeout_error", "connection_error"}

\* What an operation can throw. A raw Error is described by what wrapError
\* looks at: its name and the words its message includes. A RouterError
\* carries the type and the retryable flag it was constructed with.
ErrorNames == {"Error", "TimeoutError", "ECONNREFUSED", "ENOTFOUND"}
MessageWords == {"timeout", "connection", "network", "plugin", "validation", "invalid"}

RawErrors ==
  {[router |-> FALSE, name |-> n, words |-> w, type |-> "none", retryable |-> FALSE] :
     n \in ErrorNames, w \in {x \in SUBSET MessageWords : Cardinality(x) <= MaxWords}}

RouterErrors ==
  {[router |-> TRUE, name |-> "RouterError", words |-> {}, type |-> t, retryable |-> r] :
     t \in ErrorTypes, r \in BOOLEAN}

ThrownErrors == RawErrors \cup RouterErrors

NoError == [type |-> "none", severity |-> "none", retryable |-> FALSE]

wrapError(error) ==
  IF error.name = "TimeoutError" \/ "timeout" \in error.words
    THEN [type |-> "timeout_error", severity |-> "medium", retryable |-> TRUE]
  ELSE IF error.name = "ECONNREFUSED" \/ "connection" \in error.words
    THEN [type |-> "connection_error", severity |-> "high", retryable |-> TRUE]
  ELSE IF error.name = "ENOTFOUND" \/ "network" \in error.words
    THEN [type |-> "network_error", severity |-> "high", retryable |-> TRUE]
  ELSE IF "plugin" \in error.words
    THEN [type |-> "plugin_error", severity |-> "medium", retryable |-> FALSE]
  ELSE IF "validation" \in error.words \/ "invalid" \in error.words
    THEN [type |-> "validation_error", severity |-> "low", retryable |-> FALSE]
  ELSE [type |-> "unknown_error", severity |-> "medium", retryable |-> FALSE]

\* error instanceof RouterError ? error : this.wrapError(error, context)
AsRouterError(error) ==
  IF error.router
    THEN [type |-> error.type, severity |-> "medium", retryable |-> error.retryable]
    ELSE wrapError(error)

shouldRetry_IgnoresKind(error, retryableErrors) ==
  error.retryable

shouldRetry(error, retryableErrors) ==
  error.retryable /\ error.type \in retryableErrors

BudgetExhausted_OffByOne(attempt, maxRetries) == attempt + 1 = maxRetries

\* attempt === config.maxRetries
BudgetExhausted(attempt, maxRetries) == attempt = maxRetries

RECURSIVE Pow(_, _)
Pow(b, e) == IF e = 0 THEN 1 ELSE b * Pow(b, e - 1)

Min(a, b) == IF a <= b THEN a ELSE b

RetryDelay_Uncapped(attempt) == BaseDelay * Pow(BackoffMultiplier, attempt)

\* Math.min(config.baseDelay * Math.pow(config.backoffMultiplier, attempt), config.maxDelay)
RetryDelay(attempt) == Min(BaseDelay * Pow(BackoffMultiplier, attempt), MaxDelay)

\* updateErrorStats, the part of handleError that changes state
handleError(counts, routerError) ==
  [counts EXCEPT ![routerError.type] = @ + 1]

IdleCall ==
  [pc |-> "idle", maxRetries |-> DefaultMaxRetries, attempt |-> 0, invocations |-> 0,
   routerError |-> NoError, delay |-> 0, failures |-> {}, lastThrown |-> <<>>,
   rejectedWith |-> <<>>]

\* what the model remembers of a failed attempt
Failure(error) ==
  [type |-> AsRouterError(error).type, retryable |-> AsRouterError(error).retryable,
   router |-> error.router,
   plain |-> ~error.router /\ error.name = "Error" /\ error.words = {}]

\* executeWithRetry(operation, context, {maxRetries}): the loop starts and the
\* operation is invoked for the first time
executeWithRetryCall(maxRetries) ==
  /\ UNCHANGED notEH
  /\ call.pc \in {"idle", "resolved", "rejected"}
  /\ retryCalls < MaxRetryCalls
  /\ retryCalls' = retryCalls + 1
  /\ call' = [IdleCall EXCEPT !.pc = "awaiting", !.maxRetries = maxRetries,
                              !.invocations = 1]
  /\ UNCHANGED errorCounts

\* `return await operation()`: the operation's promise resolves
operationResolves ==
  /\ UNCHANGED notEH
  /\ call.pc = "awaiting"
  /\ call' = [call EXCEPT !.pc = "resolved"]
  /\ UNCHANGED <<errorCounts, retryCalls>>

\* the catch block: the operation's promise rejects with `error`
operationRejects(error) ==
  /\ UNCHANGED notEH
  /\ call.pc = "awaiting"
  /\ LET routerError == AsRouterError(error)
         seen == [call EXCEPT !.routerError = routerError,
                              !.failures = @ \cup {Failure(error)},
                              !.lastThrown = <<error>>]
     IN IF BudgetExhausted(call.attempt, call.maxRetries)
           \/ ~shouldRetry(routerError, RetryableErrors)
          THEN /\ errorCounts' = handleError(errorCounts, routerError)
               /\ call' = [seen EXCEPT !.pc = "rejected", !.rejectedWith = <<error>>]
          ELSE /\ call' = [seen EXCEPT !.pc = "sleeping",
                                       !.delay = RetryDelay(call.attempt)]
               /\ UNCHANGED errorCounts
  /\ UNCHANGED retryCalls

\* `await this.sleep(delay)` is over: attempt++ and the loop test; the loop body
\* invokes the operation again, and past the loop `throw lastError`
sleepElapsed ==
  /\ UNCHANGED notEH
  /\ call.pc = "sleeping"
  /\ IF call.attempt + 1 <= call.maxRetries
       THEN call' = [call EXCEPT !.pc = "awaiting", !.attempt = @ + 1,
                                 !.invocations = @ + 1]
       ELSE call' = [call EXCEPT !.pc = "rejected", !.attempt = @ + 1,
                                 !.rejectedWith = call.lastThrown]
  /\ UNCHANGED <<errorCounts, retryCalls>>

InitEH ==
  /\ call = IdleCall
  /\ errorCounts = [t \in ErrorTypes |-> 0]
  /\ retryCalls = 0

NextEH ==
  \/ \E n \in 0..MaxRetriesBound : executeWithRetryCall(n)
  \/ operationResolves
  \/ \E error \in ThrownErrors : operationRejects(error)
  \/ sleepElapsed

-----------------------------------------------------------------------------
(***************************************************************************)
(* SecurityManager: the rate limiter                                       *)
(***************************************************************************)

\* the identifiers calls are made for: an `${address}:${protocol}` and a key
RateIds == {"192.168.1.1:tcp", "test-key"}

\* the peers of the transports, and the identifiers the Security Gate limits them by
IPs == {"192.168.1.1", "192.168.1.100"}
Protocols == {"tcp", "udp"}

\* `${context.remoteAddress}:${context.protocol}`
GateId(ip, protocol) == ip \o ":" \o protocol

GateIds == {GateId(ip, protocol) : ip \in IPs, protocol \in Protocols}

\* the rule checkRateLimit creates for an identifier the cache does not hold
NewRule(t) ==
  [windowMs |-> defaultRateLimit.windowMs,
   maxRequests |-> defaultRateLimit.maxRequests,
   currentRequests |-> 0,
   resetTime |-> t + defaultRateLimit.windowMs,
   blocked |-> FALSE]

\* now > rule.resetTime
WindowExpired(rule, t) == t > rule.resetTime

ResetWindow_KeepsBlock(rule, t) ==
  [rule EXCEPT !.currentRequests = 0, !.resetTime = t + rule.windowMs]

\* "Reset if window has expired"
ResetWindow(rule, t) ==
  [rule EXCEPT !.currentRequests = 0, !.resetTime = t + rule.windowMs,
               !.blocked = FALSE]

LimitExceeded_AtLimit(rule) == rule.currentRequests >= rule.maxRequests

\* rule.currentRequests > rule.maxRequests
LimitExceeded(rule) == rule.currentRequests > rule.maxRequests

Judge_CountsWhileBlocked(rule) ==
  LET counted == [rule EXCEPT !.currentRequests = @ + 1]
  IN IF rule.blocked \/ LimitExceeded(counted)
       THEN [rule |-> [counted EXCEPT !.blocked = TRUE], allowed |-> FALSE]
       ELSE [rule |-> counted, allowed |-> TRUE]

\* checkRateLimit from "Check if currently blocked" on: the rule as the call
\* leaves it, and what the call returns
Judge(rule) ==
  IF rule.blocked THEN [rule |-> rule, allowed |-> FALSE]
  ELSE LET counted == [rule EXCEPT !.currentRequests = @ + 1]
       IN IF LimitExceeded(counted)
            THEN [rule |-> [counted EXCEPT !.blocked = TRUE], allowed |-> FALSE]
            ELSE [rule |-> counted, allowed |-> TRUE]

NoCheck == [op |-> "none"]

\* the body of checkRateLimit(identifier)
RateLimitStep(identifier) ==
  /\ rateChecks' = rateChecks + 1
  /\ IF ~enableRateLimiting
       THEN /\ lastCheck' = [op |-> "checkRateLimit", identifier |-> identifier,
                             enabled |-> FALSE, allowed |-> TRUE]
            /\ UNCHANGED <<rateLimitCache, windowCalls, limitStable>>
       ELSE LET existing == identifier \in DOMAIN rateLimitCache
                found == IF existing THEN rateLimitCache[identifier] ELSE NewRule(now)
                expired == WindowExpired(found, now)
                rule == IF expired THEN ResetWindow(found, now) ELSE found
                newWindow == ~existing \/ expired
                judged == Judge(rule)
            IN /\ rateLimitCache' = (identifier :> judged.rule) @@ rateLimitCache
               /\ windowCalls' = [windowCalls EXCEPT ![identifier] =
                                    IF newWindow THEN 1 ELSE @ + 1]
               /\ limitStable' = [limitStable EXCEPT ![identifier] =
                                    IF newWindow THEN TRUE ELSE @]
               /\ lastCheck' = [op |-> "checkRateLimit", identifier |-> identifier,
                                enabled |-> TRUE, allowed |-> judged.allowed,
                                reset |-> existing /\ expired,
                                wasBlocked |-> existing /\ found.blocked,
                                nth |-> windowCalls'[identifier],
                                limit |-> judged.rule.maxRequests,
                                stable |-> limitStable'[identifier],
                                windowLeft |-> judged.rule.resetTime - now,
                                windowMs |-> judged.rule.windowMs,
                                countAfter |-> judged.rule.currentRequests]
  /\ UNCHANGED <<now, enableRateLimiting, defaultRateLimit, ipRules, customLimit>>

checkRateLimit(identifier) ==
  /\ UNCHANGED notSM
  /\ rateChecks < MaxChecks
  /\ RateLimitStep(identifier)

setRateLimit(identifier, maxRequests, windowMs) ==
  /\ UNCHANGED notSM
  /\ rateChecks < MaxChecks
  /\ rateChecks' = rateChecks + 1
  /\ customLimit' = [customLimit EXCEPT ![identifier] = maxRequests]
  /\ IF identifier \in DOMAIN rateLimitCache
       THEN /\ rateLimitCache' =
                 [rateLimitCache EXCEPT ![identifier].maxRequests = maxRequests,
                                        ![identifier].windowMs = windowMs]
            /\ limitStable' = [limitStable EXCEPT ![identifier] =
                 @ /\ rateLimitCache[identifier].maxRequests = maxRequests]
            /\ UNCHANGED windowCalls
       ELSE /\ rateLimitCache' =
                 (identifier :> [windowMs |-> windowMs, maxRequests |-> maxRequests,
                                 currentRequests |-> 0, resetTime |-> now + windowMs,
                                 blocked |-> FALSE]) @@ rateLimitCache
            /\ limitStable' = [limitStable EXCEPT ![identifier] = TRUE]
            /\ windowCalls' = [windowCalls EXCEPT ![identifier] = 0]
  /\ UNCHANGED <<now, enableRateLimiting, defaultRateLimit, ipRules, lastCheck>>

RuleActive_IgnoresExpiry(rule, t) == TRUE

\* rule => !rule.expiresAt || rule.expiresAt > now (expiresAt 0: none)
RuleActive(rule, t) == rule.expiresAt = 0 \/ rule.expiresAt > t

RECURSIVE ActiveRules(_, _)
ActiveRules(rules, t) ==
  IF rules = <<>> THEN <<>>
  ELSE IF RuleActive(Head(rules), t)
         THEN <<Head(rules)>> \o ActiveRules(Tail(rules), t)
         ELSE ActiveRules(Tail(rules), t)

\* now > rule.resetTime && rule.currentRequests === 0
Sweepable(rule, t) == t > rule.resetTime /\ rule.currentRequests = 0

\* the cleanup interval's callback: cleanupExpiredRules, cleanupRateLimitCache
cleanupSweep ==
  /\ UNCHANGED notSM
  /\ ipRules' = ActiveRules(ipRules, now)
  /\ LET kept == {i \in DOMAIN rateLimitCache : ~Sweepable(rateLimitCache[i], now)}
     IN rateLimitCache' = [i \in kept |-> rateLimitCache[i]]
  /\ UNCHANGED <<now, enableRateLimiting, defaultRateLimit, rateChecks, lastCheck,
                 windowCalls, limitStable, customLimit>>

\* time passes
Tick ==
  /\ UNCHANGED notSM
  /\ now < MaxTime
  /\ now' = now + 1
  /\ UNCHANGED <<enableRateLimiting, defaultRateLimit, rateLimitCache, ipRules,
                 rateChecks, lastCheck, windowCalls, limitStable, customLimit>>

\* the state a SecurityManager is constructed in, for the limits given
ConstructedSM(enabled, limit) ==
  /\ now = 0
  /\ enableRateLimiting = enabled
  /\ defaultRateLimit = limit
  /\ rateLimitCache = <<>>
  /\ ipRules = <<>>
  /\ rateChecks = 0
  /\ lastCheck = NoCheck
  /\ windowCalls = [i \in RateIds \cup GateIds |-> 0]
  /\ limitStable = [i \in RateIds \cup GateIds |-> TRUE]
  /\ customLimit = [i \in RateIds \cup GateIds |-> 0]

\* every configuration
InitSM ==
  \E enabled \in BOOLEAN, w \in {MaxWindow}, m \in 1..MaxRequests :
    ConstructedSM(enabled, [windowMs |-> w, maxRequests |-> m])

\* one configuration, for the specifications of the other components
InitSMFixed == ConstructedSM(TRUE, [windowMs |-> MaxWindow, maxRequests |-> MaxRequests])

NextSM ==
  \/ \E i \in RateIds : checkRateLimit(i)
  \/ \E i \in RateIds, m \in 1..MaxRequests, w \in {MaxWindow} : setRateLimit(i, m, w)
  \/ cleanupSweep
  \/ Tick

-----------------------------------------------------------------------------
(***************************************************************************)
(* SecurityManager and SecurityPipeline: the Security Gate                 *)
(***************************************************************************)
\* The rules addIPRule is given. A cidr is held parsed: the text before the
\* slash and parseInt of the text after it; NoCidr is an absent cidr.
NoCidr == [network |-> "", prefix |-> 0]
Cidrs == {[network |-> "192.168.1.1", prefix |-> 32]}
RuleTypes == {"whitelist", "blacklist"}

\* the characters of the addresses of this model
Chars(text) ==
  CASE text = "192.168.1.1" ->
         <<"1", "9", "2", ".", "1", "6", "8", ".", "1", ".", "1">>
    [] text = "192.168.1.100" ->
         <<"1", "9", "2", ".", "1", "6", "8", ".", "1", ".", "1", "0", "0">>

\* the rules addIPRule is given: by address or by cidr, with an expiry (at
\* time 1) or without one (0)
AddableRules ==
  {[address |-> a, type |-> t, expiresAt |-> e, cidr |-> NoCidr] :
     a \in IPs, t \in RuleTypes, e \in {0, 1}}
  \cup {[address |-> c.network, type |-> t, expiresAt |-> 0, cidr |-> c] :
          c \in Cidrs, t \in RuleTypes}

\* network.split('.')
RECURSIVE Split(_)
Split(chars) ==
  IF \A i \in DOMAIN chars : chars[i] # "." THEN <<chars>>
  ELSE LET dot == CHOOSE i \in DOMAIN chars :
                    chars[i] = "." /\ \A j \in 1..(i - 1) : chars[j] # "."
       IN <<SubSeq(chars, 1, dot - 1)>> \o Split(SubSeq(chars, dot + 1, Len(chars)))

\* parts.join('.')
RECURSIVE Join(_)
Join(parts) ==
  IF parts = <<>> THEN <<>>
  ELSE IF Len(parts) = 1 THEN parts[1]
  ELSE parts[1] \o <<".">> \o Join(Tail(parts))

\* text.startsWith(prefix)
StartsWith(chars, prefix) ==
  Len(prefix) <= Len(chars) /\ SubSeq(chars, 1, Len(prefix)) = prefix

\* ipAddress.startsWith(network.split('.').slice(0, Math.floor(prefix / 8)).join('.'))
isIPInCIDR(ip, cidr) ==
  LET parts == Split(Chars(cidr.network))
      kept == SubSeq(parts, 1, Min(cidr.prefix \div 8, Len(parts)))
  IN StartsWith(Chars(ip), Join(kept))

\* rule.cidr ? this.isIPInCIDR(ipAddress, rule.cidr) : ipAddress === rule.address
matchesIPRule(ip, rule) ==
  IF rule.cidr # NoCidr THEN isIPInCIDR(ip, rule.cidr) ELSE ip = rule.address

hasWhitelistRules_Never(activeRules) == FALSE

\* activeRules.some(rule => rule.type === 'whitelist')
hasWhitelistRules(activeRules) ==
  \E i \in DOMAIN activeRules : activeRules[i].type = "whitelist"

\* the type of the first active rule that matches, "none" if there is none
RECURSIVE FirstMatch(_, _)
FirstMatch(rules, ip) ==
  IF rules = <<>> THEN "none"
  ELSE IF matchesIPRule(ip, Head(rules)) THEN Head(rules).type
  ELSE FirstMatch(Tail(rules), ip)

checkIPAccess(ip) ==
  IF ~enableIPFiltering THEN TRUE
  ELSE IF ip \in blockedIPs THEN FALSE
  ELSE LET activeRules == ActiveRules(ipRules, now)
           first == FirstMatch(activeRules, ip)
       IN IF first = "blacklist" THEN FALSE
          ELSE IF first = "whitelist" THEN TRUE
          ELSE ~hasWhitelistRules(activeRules)

ConnectionLimitReached_Above(ip) == ipConnections[ip] > MaxConnectionsPerIP

\* currentConnections >= this.config.maxConnectionsPerIP, where
\* currentConnections is this.ipConnections.get(ipAddress) || 0
ConnectionLimitReached(ip) == ipConnections[ip] >= MaxConnectionsPerIP

\* the body of checkConnectionLimit(ipAddress): the count and the ledger after it
ConnectionLimitStep(ip) ==
  IF ConnectionLimitReached(ip)
    THEN UNCHANGED <<ipConnections, connLedger>>
    ELSE /\ ipConnections' = [ipConnections EXCEPT ![ip] = @ + 1]
         /\ connLedger' = [connLedger EXCEPT ![ip].grants = @ + 1]

\* a call of checkConnectionLimit(ipAddress)
checkConnectionLimit(ip) ==
  /\ netEvents < MaxNetEvents
  /\ netEvents' = netEvents + 1
  /\ ConnectionLimitStep(ip)
  /\ lastConn' = [op |-> "checkConnectionLimit", ip |-> ip,
                   granted |-> ~ConnectionLimitReached(ip),
                   before |-> ipConnections[ip], after |-> ipConnections'[ip],
                   ledger |-> connLedger[ip]]
  /\ UNCHANGED <<notGate, netRest, smVars, enableIPFiltering, blockedIPs, gateRuns,
                 lastIPCheck, lastGate, blockVars>>

\* releaseConnection(ipAddress); a deleted entry reads as 0
releaseConnection(ip) ==
  /\ netEvents < MaxNetEvents
  /\ netEvents' = netEvents + 1
  /\ ipConnections' = [ipConnections EXCEPT ![ip] = IF @ > 0 THEN @ - 1 ELSE 0]
  /\ connLedger' = [connLedger EXCEPT ![ip].releases = @ + 1,
                                      ![ip].orderly = @ /\ ipConnections[ip] > 0]
  /\ lastConn' = [op |-> "releaseConnection", ip |-> ip, granted |-> FALSE,
                   before |-> ipConnections[ip], after |-> ipConnections'[ip],
                   ledger |-> connLedger[ip]]
  /\ UNCHANGED <<notGate, netRest, smVars, enableIPFiltering, blockedIPs, gateRuns,
                 lastIPCheck, lastGate, blockVars>>

NoCall == [op |-> "none"]

\* a call of checkIPAccess(ipAddress)
checkIPAccessCall(ip) ==
  /\ netEvents < MaxNetEvents
  /\ netEvents' = netEvents + 1
  /\ lastIPCheck' =
       [op |-> "checkIPAccess", ip |-> ip, allowed |-> checkIPAccess(ip),
        seq |-> netEvents',
        filtering |-> enableIPFiltering,
        blocked |-> ip \in blockedIPs,
        first |-> FirstMatch(ActiveRules(ipRules, now), ip),
        whitelists |-> hasWhitelistRules(ActiveRules(ipRules, now)),
        blacklists |-> \E i \in DOMAIN ipRules : ipRules[i].type = "blacklist",
        \* the type of the first rule that matches, were expired rules counted
        stale |-> FirstMatch(ipRules, ip)]
  /\ UNCHANGED <<notGate, netRest, smVars, gateVars, lastConn, lastGate, connLedger>>

Unblocked == [kind |-> "unblocked"]
Forever == [kind |-> "forever"]

\* blockIP(ipAddress, durationMs): a duration that is undefined or 0 sets no
\* timer
blockIP(ip, durationMs) ==
  /\ netEvents < MaxNetEvents
  /\ netEvents' = netEvents + 1
  /\ UNCHANGED <<notNet, netRest, smVars>>
  /\ blockedIPs' = blockedIPs \cup {ip}
  /\ blockTimers' = IF durationMs > 0
                    THEN blockTimers \cup {[ip |-> ip, due |-> now + durationMs]}
                    ELSE blockTimers
  /\ blockedUntil' = [blockedUntil EXCEPT ![ip] =
                        IF durationMs > 0 THEN [kind |-> "until", t |-> now + durationMs]
                        ELSE Forever]
  /\ UNCHANGED <<enableIPFiltering, ipConnections, gateRuns>>

\* unblockIP(ipAddress): the timers set for the address stay pending
unblockIP(ip) ==
  /\ netEvents < MaxNetEvents
  /\ netEvents' = netEvents + 1
  /\ UNCHANGED <<notNet, netRest, smVars>>
  /\ blockedIPs' = blockedIPs \ {ip}
  /\ blockedUntil' = [blockedUntil EXCEPT ![ip] = Unblocked]
  /\ UNCHANGED <<enableIPFiltering, ipConnections, gateRuns, blockTimers>>

\* a timer of blockIP fires, at its due time or later: its callback calls
\* this.unblockIP(ipAddress)
blockTimerFires(timer) ==
  /\ timer \in blockTimers
  /\ now >= timer.due
  /\ blockTimers' = blockTimers \ {timer}
  /\ blockedIPs' = blockedIPs \ {timer.ip}
  /\ UNCHANGED <<notNet, netVars, smVars>>
  /\ UNCHANGED <<enableIPFiltering, ipConnections, gateRuns, blockedUntil>>

\* addIPRule({address, cidr, type, expiresAt})
addIPRule(address, type, expiresAt, cidr) ==
  /\ netEvents < MaxNetEvents
  /\ netEvents' = netEvents + 1
  /\ UNCHANGED <<notNet, netRest, gateVars>>
  /\ Len(ipRules) < MaxRules
  /\ ipRules' = Append(ipRules, [address |-> address, type |-> type,
                                  expiresAt |-> expiresAt, cidr |-> cidr])
  /\ UNCHANGED <<now, enableRateLimiting, defaultRateLimit, rateLimitCache,
                 rateChecks, lastCheck, windowCalls, limitStable, customLimit>>

\* the middlewares createSecurityPipeline adds, in its order
Middlewares == <<"ip_filter", "rate_limit", "connection_limit">>

Proceed_Always(allowed) == TRUE

\* SecurityPipeline.process: `if (!allowed) { ...; return false }`
Proceed(allowed) == allowed

\* the identifier's entry of the rate-limit cache, <<>> if it has none
RateEntry(cache, identifier) ==
  IF identifier \in DOMAIN cache THEN <<cache[identifier]>> ELSE <<>>

\* SecurityPipeline.process(context): the middlewares in their order, each
\* reached only when the one before it let the context proceed
securityPipelineProcess(ip, protocol, hasSocket) ==
  LET identifier == GateId(ip, protocol)
      ipAllowed == checkIPAccess(ip)
      rateRan == Proceed(ipAllowed)
  IN /\ netEvents < MaxNetEvents
     /\ netEvents' = netEvents + 1
     /\ rateChecks < MaxChecks
     /\ IF rateRan THEN RateLimitStep(identifier) ELSE UNCHANGED smVars
     /\ LET rateAllowed == IF rateRan THEN lastCheck'.allowed ELSE FALSE
            connRan == rateRan /\ Proceed(rateAllowed)
            \* ConnectionLimitMiddleware: context.protocol === 'tcp' && context.socket
            connChecked == connRan /\ protocol = "tcp" /\ hasSocket
            connAllowed == IF connChecked THEN ~ConnectionLimitReached(ip) ELSE connRan
            result == connRan /\ Proceed(connAllowed)
        IN /\ IF connChecked THEN ConnectionLimitStep(ip)
                             ELSE UNCHANGED <<ipConnections, connLedger>>
           /\ gateRuns' = [gateRuns EXCEPT ![identifier] =
                             IF result THEN "passed" ELSE "denied"]
           /\ lastGate' = [op |-> "process", ip |-> ip, protocol |-> protocol,
                            hasSocket |-> hasSocket,
                            ipAllowed |-> ipAllowed,
                            rateRan |-> rateRan, rateAllowed |-> rateAllowed,
                            connRan |-> connRan, connAllowed |-> connAllowed,
                            result |-> result,
                            rateBefore |-> RateEntry(rateLimitCache, identifier),
                            rateAfter |-> RateEntry(rateLimitCache', identifier),
                            connBefore |-> ipConnections[ip],
                            connAfter |-> ipConnections'[ip]]
     /\ UNCHANGED <<notGate, netRest, enableIPFiltering, blockedIPs, lastIPCheck, lastConn,
                    blockVars>>

\* the state a SecurityManager is constructed in, for the filtering flag given
ConstructedGate(filtering) ==
  /\ enableIPFiltering = filtering
  /\ blockedIPs = {}
  /\ blockTimers = {}
  /\ blockedUntil = [ip \in IPs |-> Unblocked]
  /\ ipConnections = [ip \in IPs |-> 0]
  /\ gateRuns = [g \in GateIds |-> "none"]
  /\ lastIPCheck = NoCall
  /\ lastConn = NoCall
  /\ lastGate = NoCall
  /\ connLedger = [ip \in IPs |-> [grants |-> 0, releases |-> 0, orderly |-> TRUE]]

\* the constructor's default: filtering enabled
InitGate == ConstructedGate(TRUE)

\* every value config.enableIPFiltering is given
InitGateAny == \E filtering \in BOOLEAN : ConstructedGate(filtering)

-----------------------------------------------------------------------------
(***************************************************************************)
(* SessionStore (core/sessionStore.ts) and Router (core/router.ts)         *)
(***************************************************************************)

MaxRoutes == 2
MaxSessions == 1

\* session ids are those of the sockets, session keys those of the peers
SessionIds == 1..MaxSockets

createSession(id) == sessions \cup {id}

removeSession(sessionId) == sessions \ {sessionId}

\* the ports datagrams come from
Ports == {40000, 40001}

\* `${rinfo.address}:${rinfo.port}`
SessionKey(address, port) == address \o ":" \o ToString(port)

SessionKeys == {SessionKey(address, port) : address \in IPs, port \in Ports}

\* the key of a peer that sends all its datagrams from one port
PeerKey(ip) == SessionKey(ip, 40000)

\* generateSessionId(): 16 random bytes and the time, an id no record holds
generateSessionId ==
  LET used == {udpSessions[key].id : key \in DOMAIN udpSessions}
      free == (1..(Cardinality(SessionKeys) + 1)) \ used
  IN CHOOSE id \in free : \A other \in free : id <= other

\* createConnection(id, 'udp', address, port)
createConnection(id) == [id |-> id, lastActivity |-> now]

updateConnectionActivity(connection) == [connection EXCEPT !.lastActivity = now]

KnownUdpSession_Never(key) == FALSE

\* this.udpSessions.get(key) finds a connection
KnownUdpSession(key) == key \in DOMAIN udpSessions

\* the udpSessions map after getOrCreateUdpSession(rinfo); the call returns
\* the id of the connection the map then holds for the key
getOrCreateUdpSession(key) ==
  IF KnownUdpSession(key)
  THEN [udpSessions EXCEPT ![key] = updateConnectionActivity(@)]
  ELSE (key :> createConnection(generateSessionId)) @@ udpSessions

removeUdpSession(key) == [k \in DOMAIN udpSessions \ {key} |-> udpSessions[k]]

getSessionCount ==
  [tcp |-> Cardinality(sessions), udp |-> Cardinality(DOMAIN udpSessions)]

NoUdpCall == [op |-> "none"]

\* a getOrCreateUdpSession(rinfo) call, and what it returned
getOrCreateUdpSessionCall(address, port) ==
  LET key == SessionKey(address, port) IN
  /\ udpSessions' = getOrCreateUdpSession(key)
  /\ lastUdp' = [op |-> "getOrCreateUdpSession", key |-> key,
                 known |-> key \in DOMAIN udpSessions,
                 id |-> udpSessions'[key].id]
  /\ UNCHANGED <<sessions, notStore>>

\* a removeUdpSession(address, port) call
removeUdpSessionCall(address, port) ==
  /\ udpSessions' = removeUdpSession(SessionKey(address, port))
  /\ lastUdp' = [op |-> "removeUdpSession", key |-> SessionKey(address, port)]
  /\ UNCHANGED <<sessions, notStore>>

\* a session is created for a connection or a datagram
sessionCreated(protocol) ==
  /\ getSessionCount.tcp + getSessionCount.udp < MaxSessions
  /\ IF protocol = "tcp"
       THEN /\ SessionIds \ sessions # {}
            /\ LET id == CHOOSE i \in SessionIds \ sessions :
                            \A j \in SessionIds \ sessions : i <= j
               IN sessions' = createSession(id)
            /\ UNCHANGED udpSessions
       ELSE /\ \E ip \in IPs :
                 /\ ~KnownUdpSession(PeerKey(ip))
                 /\ udpSessions' = getOrCreateUdpSession(PeerKey(ip))
            /\ UNCHANGED sessions
  /\ UNCHANGED lastUdp
  /\ UNCHANGED notStore

\* a session is removed
sessionRemoved(protocol) ==
  /\ IF protocol = "tcp"
       THEN /\ \E sessionId \in sessions : sessions' = removeSession(sessionId)
            /\ UNCHANGED udpSessions
       ELSE /\ \E key \in DOMAIN udpSessions : udpSessions' = removeUdpSession(key)
            /\ UNCHANGED sessions
  /\ UNCHANGED lastUdp
  /\ UNCHANGED notStore

InitStore ==
  /\ sessions = {}
  /\ udpSessions = <<>>
  /\ lastUdp = NoUdpCall

Payloads == {"", "health\n", "ping", "metrics", "test message"}

\* data.toString().trim()
Trim(text) == IF text = "health\n" THEN "health" ELSE text

\* transport: whether the context carries the socket (tcp) or the server and
\* rinfo (udp) the handlers write to
RouteContexts ==
  {context \in [protocol : Protocols, data : Payloads, transport : BOOLEAN] :
     context.protocol = "udp" => context.transport}

\* the rule and handler pairs the program registers
RouteNames == {"echo", "health_check", "metrics_request"}

RuleHolds(rule, context) ==
  CASE rule = "echo" -> context.data # ""
    [] rule = "health_check" -> Trim(context.data) \in {"health", "ping"}
    [] rule = "metrics_request" -> Trim(context.data) \in {"metrics", "stats"}

\* what the handler writes to the context's socket or sends to its peer
HandlerWrites(handler, context, stats) ==
  IF ~context.transport THEN <<>>
  ELSE CASE handler = "echo" -> <<context.data>>
         [] handler = "health_check" -> <<"OK\n">>
         [] handler = "metrics_request" ->
              <<"TCP: " \o ToString(stats.tcp) \o ", UDP: " \o ToString(stats.udp) \o "\n">>

Route(name) == [name |-> name, rule |-> name, handler |-> name]

createDefaultRouter == <<Route("echo"), Route("health_check"), Route("metrics_request")>>

addRoute(name) ==
  /\ Len(routes) < MaxRoutes
  /\ routes' = Append(routes, Route(name))
  /\ UNCHANGED <<routing, plugVars, notApp>>

RECURSIVE FindIndex(_, _)
\* routes.findIndex(route => route.name === name) from position i on
FindIndex(i, name) ==
  IF i > Len(routes) THEN 0
  ELSE IF routes[i].name = name THEN i
  ELSE FindIndex(i + 1, name)

removeRoute(name) ==
  /\ LET index == FindIndex(1, name) IN
       routes' = IF index # 0
                 THEN [k \in 1..(Len(routes) - 1) |->
                         IF k < index THEN routes[k] ELSE routes[k + 1]]
                 ELSE routes
  /\ UNCHANGED <<routing, plugVars, notApp>>

clearRoutes ==
  /\ routes' = <<>>
  /\ UNCHANGED <<routing, plugVars, notApp>>

\* the last route from position i on whose rule holds
FirstRoute_Last(i, context) ==
  LET matching == {j \in i..Len(routes) : RuleHolds(routes[j].rule, context)}
  IN IF matching = {} THEN Len(routes) + 1
     ELSE CHOOSE j \in matching : \A k \in matching : k <= j

RECURSIVE FirstRoute(_, _)
\* the first route from position i on whose rule holds
FirstRoute(i, context) ==
  IF i > Len(routes) THEN i
  ELSE IF RuleHolds(routes[i].rule, context) THEN i
  ELSE FirstRoute(i + 1, context)

NoRoute == [status |-> "idle"]

\* route(context); settles is how the handler it awaits settles
route(context, settles) ==
  /\ LET i == FirstRoute(1, context) IN
       routing' =
         IF i > Len(routes)
         THEN [status |-> "returned", result |-> FALSE, context |-> context,
               invoked |-> <<>>, written |-> <<>>]
         ELSE IF settles = "resolves"
         THEN [status |-> "returned", result |-> TRUE, context |-> context,
               invoked |-> <<i>>,
               written |-> HandlerWrites(routes[i].handler, context, getSessionCount)]
         ELSE [status |-> "rejected", invoked |-> <<i>>]
  /\ UNCHANGED <<routes, plugVars, notApp>>

ConstructedRouter(initial) ==
  /\ routes = initial
  /\ routing = NoRoute

InitRouter == ConstructedRouter(createDefaultRouter)

InitRouterAny == \E initial \in {<<>>, createDefaultRouter} : ConstructedRouter(initial)

NextRouter ==
  \/ \E name \in RouteNames : addRoute(name)
  \/ \E name \in RouteNames : removeRoute(name)
  \/ clearRoutes
  \/ \E context \in RouteContexts, settles \in {"resolves", "rejects"} :
       route(context, settles)
  \/ \E protocol \in Protocols : sessionCreated(protocol)
  \/ \E protocol \in Protocols : sessionRemoved(protocol)


-----------------------------------------------------------------------------
(***************************************************************************)
(* TCPServer and UDPServer                                                 *)
(***************************************************************************)

\* the errors pipeline.process rejects with in this model: one that wrapError
\* makes retryable and one it does not
\* the chunks a client sends
Chunks == {"ping", "test message"}

PipelineErrors == {e \in RawErrors : e.words = {} /\ e.name \in {"Error", "TimeoutError"}}

\* () => pipeline.process(context): what is handed over, and what the Security
\* Gate says of its peer at that moment
HandOver(protocol, ip) ==
  [protocol |-> protocol, peer |-> ip,
   gate |-> gateRuns[GateId(ip, protocol)],
   refused |-> ~checkIPAccess(ip)]

\* errorHandler.executeWithRetry(() => pipeline.process(context), ...): the
\* loop starts and the operation is invoked for the first time
StartCall(protocol, ip) ==
  /\ callsStarted < MaxCalls
  /\ callsStarted' = callsStarted + 1
  /\ inFlight' = inFlight \cup {[cid |-> callsStarted + 1, protocol |-> protocol,
                                 peer |-> ip, attempt |-> 0, pc |-> "awaiting"]}
  /\ handed' = handed \cup {HandOver(protocol, ip)}

\* server.on('connection'): handleConnection(socket)
handleConnection(ip) ==
  /\ UNCHANGED <<notNetSide, smVars, gateVars, udpVars>>
  /\ netEvents < MaxNetEvents
  /\ netEvents' = netEvents + 1
  /\ Len(sockets) < MaxSockets
  /\ received' = Append(received, <<>>)
  /\ socketWrites' = Append(socketWrites, <<>>)
  /\ IF tcpShuttingDown
       THEN /\ sockets' = Append(sockets, [peer |-> ip, open |-> FALSE])
            /\ UNCHANGED <<activeConnections, registry, sessions>>
       ELSE LET sessionId == Len(sockets) + 1
            IN /\ sockets' = Append(sockets, [peer |-> ip, open |-> TRUE])
               /\ sessions' = createSession(sessionId)
               /\ activeConnections' = activeConnections \cup {sessionId}
               /\ registry' = [registry EXCEPT !.tcp = (sessionId :> FALSE) @@ @]
  /\ UNCHANGED <<tcpShuttingDown, udpShuttingDown, activeSessions, inFlight,
                 callsStarted, handed, serverErrorCounts>>

\* socket.on('data'): up to the await of executeWithRetry
socketData(sessionId, data) ==
  /\ UNCHANGED <<notNetSide, smVars, gateVars, storeVars, socketWrites>>
  /\ netEvents < MaxNetEvents
  /\ netEvents' = netEvents + 1
  /\ sockets[sessionId].open
  /\ StartCall("tcp", sockets[sessionId].peer)
  /\ received' = [received EXCEPT ![sessionId] =
                    Append(@, [cid |-> callsStarted + 1, data |-> data])]
  /\ UNCHANGED <<tcpShuttingDown, udpShuttingDown, sockets, activeConnections,
                 activeSessions, registry, serverErrorCounts>>

\* cleanupConnection(sessionId); the dispose action of the connection's
\* resource destroys the socket
cleanupConnection(sessionId) ==
  IF sessionId \in activeConnections
    THEN /\ sessions' = removeSession(sessionId)
         /\ activeConnections' = activeConnections \ {sessionId}
         /\ registry' = [registry EXCEPT !.tcp =
                           IF sessionId \in DOMAIN @ THEN [@ EXCEPT ![sessionId] = TRUE]
                                                     ELSE @]
    ELSE UNCHANGED <<activeConnections, registry, sessions>>

\* socket.on('close')
socketClose(sessionId) ==
  /\ UNCHANGED <<notNetSide, smVars, gateVars, udpVars, ioVars>>
  /\ netEvents < MaxNetEvents
  /\ netEvents' = netEvents + 1
  /\ sockets[sessionId].open
  /\ sockets' = [sockets EXCEPT ![sessionId].open = FALSE]
  /\ cleanupConnection(sessionId)
  /\ UNCHANGED <<tcpShuttingDown, udpShuttingDown, activeSessions, inFlight,
                 callsStarted, handed, serverErrorCounts>>

\* socket.on('timeout'), and the 'close' that follows the socket's destruction
socketTimeout(sessionId) ==
  /\ UNCHANGED <<notNetSide, smVars, gateVars, udpVars, ioVars>>
  /\ netEvents < MaxNetEvents
  /\ netEvents' = netEvents + 1
  /\ sockets[sessionId].open
  /\ cleanupConnection(sessionId)
  /\ sockets' = [sockets EXCEPT ![sessionId].open = FALSE]
  /\ UNCHANGED <<tcpShuttingDown, udpShuttingDown, activeSessions, inFlight,
                 callsStarted, handed, serverErrorCounts>>

\* server.on('message'): handleMessage(msg, rinfo), a peer sending from one port
handleMessage(ip) ==
  /\ UNCHANGED <<notNetSide, smVars, gateVars, sessions, lastUdp, ioVars>>
  /\ netEvents < MaxNetEvents
  /\ netEvents' = netEvents + 1
  /\ IF udpShuttingDown
       THEN UNCHANGED <<activeSessions, registry, inFlight, callsStarted, handed,
                        udpSessions>>
       ELSE /\ udpSessions' = getOrCreateUdpSession(PeerKey(ip))
            /\ IF ip \notin DOMAIN activeSessions
                 THEN /\ activeSessions' = (ip :> 1) @@ activeSessions
                      /\ registry' = [registry EXCEPT !.udp =
                                        IF ip \in DOMAIN @ THEN @ ELSE (ip :> FALSE) @@ @]
                 ELSE /\ activeSessions' = [activeSessions EXCEPT ![ip] = @ + 1]
                      /\ UNCHANGED registry
            /\ StartCall("udp", ip)
  /\ UNCHANGED <<tcpShuttingDown, udpShuttingDown, sockets, activeConnections,
                 serverErrorCounts>>

\* TCPServer.stop()
tcpStop ==
  /\ netEvents < MaxNetEvents
  /\ netEvents' = netEvents + 1
  /\ UNCHANGED <<notNet, smVars, gateVars>>
  /\ ~tcpShuttingDown
  /\ tcpShuttingDown' = TRUE
  /\ UNCHANGED <<udpShuttingDown, sockets, activeConnections, activeSessions,
                 registry, inFlight, callsStarted, handed, serverErrorCounts>>

\* UDPServer.stop()
udpStop ==
  /\ netEvents < MaxNetEvents
  /\ netEvents' = netEvents + 1
  /\ UNCHANGED <<notNet, smVars, gateVars>>
  /\ ~udpShuttingDown
  /\ udpShuttingDown' = TRUE
  /\ UNCHANGED <<tcpShuttingDown, sockets, activeConnections, activeSessions,
                 registry, inFlight, callsStarted, handed, serverErrorCounts>>

\* whether a stage of the pipeline hands the context to router.route
ReachesRouter == \E i \in 1..Len(middlewares) : middlewares[i].routes

\* what pipeline.process(context) writes to the socket of a TCP chunk
PipelineWrites(data) ==
  LET context == [protocol |-> "tcp", data |-> data, transport |-> TRUE]
      i == FirstRoute(1, context)
  IN IF ReachesRouter /\ i <= Len(routes)
     THEN HandlerWrites(routes[i].handler, context, getSessionCount)
     ELSE <<>>

\* pipeline.process(context) resolves: executeWithRetry returns to the handler
pipelineResolves(c) ==
  /\ UNCHANGED <<notNetSide, smVars, gateVars, storeVars, received>>
  /\ c.pc = "awaiting"
  /\ inFlight' = inFlight \ {c}
  /\ socketWrites' =
       [sessionId \in DOMAIN socketWrites |->
          IF \E k \in 1..Len(received[sessionId]) : received[sessionId][k].cid = c.cid
          THEN LET k == CHOOSE k \in 1..Len(received[sessionId]) :
                          received[sessionId][k].cid = c.cid
               IN socketWrites[sessionId] \o PipelineWrites(received[sessionId][k].data)
          ELSE socketWrites[sessionId]]
  /\ UNCHANGED <<tcpShuttingDown, udpShuttingDown, sockets, activeConnections,
                 activeSessions, registry, callsStarted, handed, serverErrorCounts,
                 netEvents>>

\* pipeline.process(context) rejects: executeWithRetry's catch block, and the
\* handler's own catch when executeWithRetry throws
pipelineRejects(c, error) ==
  /\ UNCHANGED <<notNet, smVars, gateVars>>
  /\ c.pc = "awaiting"
  /\ LET routerError == AsRouterError(error)
     IN IF BudgetExhausted(c.attempt, DefaultMaxRetries)
           \/ ~shouldRetry(routerError, RetryableErrors)
          THEN /\ inFlight' = inFlight \ {c}
               /\ serverErrorCounts' = [serverErrorCounts EXCEPT ![c.protocol] =
                    handleError(handleError(@, routerError), routerError)]
          ELSE /\ inFlight' = (inFlight \ {c}) \cup {[c EXCEPT !.pc = "sleeping"]}
               /\ UNCHANGED serverErrorCounts
  /\ UNCHANGED <<tcpShuttingDown, udpShuttingDown, sockets, activeConnections,
                 activeSessions, registry, callsStarted, handed, netEvents>>

\* `await this.sleep(delay)` is over: the operation is invoked again
retryInvokes(c) ==
  /\ UNCHANGED <<notNet, smVars, gateVars>>
  /\ c.pc = "sleeping"
  /\ inFlight' = (inFlight \ {c}) \cup
                   {[c EXCEPT !.pc = "awaiting", !.attempt = @ + 1]}
  /\ handed' = handed \cup {HandOver(c.protocol, c.peer)}
  /\ UNCHANGED <<tcpShuttingDown, udpShuttingDown, sockets, activeConnections,
                 activeSessions, registry, callsStarted, serverErrorCounts, netEvents>>

\* socket.on('error')
socketError(sessionId, error) ==
  /\ UNCHANGED <<notNet, smVars, gateVars>>
  /\ netEvents < MaxNetEvents
  /\ netEvents' = netEvents + 1
  /\ sockets[sessionId].open
  /\ serverErrorCounts' = [serverErrorCounts EXCEPT !.tcp =
                             handleError(@, AsRouterError(error))]
  /\ UNCHANGED <<tcpShuttingDown, udpShuttingDown, sockets, activeConnections,
                 activeSessions, registry, inFlight, callsStarted, handed>>

\* TCPServer.dispose(): the connection resources are disposed and their
\* sockets destroyed, the connections are forgotten; the 'close' events of the
\* destroyed sockets come after and find no connection to clean up
tcpDispose ==
  /\ UNCHANGED <<notNet, smVars, gateVars>>
  /\ netEvents < MaxNetEvents
  /\ netEvents' = netEvents + 1
  /\ tcpShuttingDown' = TRUE
  /\ registry' = [registry EXCEPT !.tcp = [id \in DOMAIN @ |-> TRUE]]
  /\ sockets' = [sessionId \in DOMAIN sockets |->
                   [sockets[sessionId] EXCEPT !.open = FALSE]]
  /\ activeConnections' = {}
  /\ UNCHANGED <<udpShuttingDown, activeSessions, inFlight, callsStarted, handed,
                 serverErrorCounts>>

\* gracefulShutdown(container), up to its first await: tcpServer.stop() and
\* udpServer.stop() stop accepting, sessionStore.dispose() clears both maps
gracefulShutdown ==
  /\ UNCHANGED <<rmVars, ehVars, smVars, gateVars, gateObs, appVars, ioVars, pipeVars, healthVars>>
  /\ shutdown = "running"
  /\ shutdown' = "sessionStoreDisposed"
  /\ tcpShuttingDown' = TRUE
  /\ udpShuttingDown' = TRUE
  /\ sessions' = {}
  /\ udpSessions' = <<>>
  /\ UNCHANGED lastUdp
  /\ UNCHANGED <<sockets, activeConnections, activeSessions, registry, inFlight,
                 callsStarted, handed, serverErrorCounts, netEvents>>

\* gracefulShutdown from `await container.dispose()` to process.exit(0): the
\* services the container resolved are disposed, the last resolved first.
\* Each server disposes its resources by type, forgets its connections or
\* sessions and runs its registry's disposeAllResources; the session store
\* is disposed once more.
containerDispose ==
  /\ UNCHANGED <<rmVars, ehVars, smVars, gateVars, gateObs, appVars, ioVars, pipeVars, healthVars>>
  /\ shutdown = "sessionStoreDisposed"
  /\ shutdown' = "exited"
  /\ registry' = [p \in DOMAIN registry |-> [id \in DOMAIN registry[p] |-> TRUE]]
  /\ sockets' = [sessionId \in DOMAIN sockets |->
                   [sockets[sessionId] EXCEPT !.open = FALSE]]
  /\ activeConnections' = {}
  /\ activeSessions' = <<>>
  /\ sessions' = {}
  /\ udpSessions' = <<>>
  /\ UNCHANGED lastUdp
  /\ UNCHANGED <<tcpShuttingDown, udpShuttingDown, inFlight, callsStarted, handed,
                 serverErrorCounts, netEvents>>

InitNet ==
  /\ received = <<>>
  /\ socketWrites = <<>>
  /\ tcpShuttingDown = FALSE
  /\ udpShuttingDown = FALSE
  /\ sockets = <<>>
  /\ activeConnections = {}
  /\ activeSessions = <<>>
  /\ registry = [tcp |-> <<>>, udp |-> <<>>]
  /\ inFlight = {}
  /\ callsStarted = 0
  /\ handed = {}
  /\ serverErrorCounts = [p \in Protocols |-> [t \in ErrorTypes |-> 0]]
  /\ netEvents = 0
  /\ shutdown = "running"
  /\ middlewares = <<>>
  /\ runs = <<>>

NextNet ==
  \/ \E ip \in IPs \ blockedIPs : blockIP(ip, 0)
  \/ \E ip \in blockedIPs : unblockIP(ip)
  \/ \E ip \in IPs, type \in RuleTypes : addIPRule(ip, type, 0, NoCidr)
  \/ \E ip \in IPs, protocol \in Protocols, hasSocket \in BOOLEAN :
       securityPipelineProcess(ip, protocol, hasSocket)
  \/ \E ip \in IPs : handleConnection(ip)
  \/ \E sessionId \in DOMAIN sockets, data \in Chunks : socketData(sessionId, data)
  \/ \E sessionId \in DOMAIN sockets : socketClose(sessionId)
  \/ \E sessionId \in DOMAIN sockets : socketTimeout(sessionId)
  \/ \E ip \in IPs : handleMessage(ip)
  \/ tcpStop
  \/ udpStop
  \/ \E c \in inFlight : pipelineResolves(c)
  \/ \E c \in inFlight, error \in PipelineErrors : pipelineRejects(c, error)
  \/ \E c \in inFlight : retryInvokes(c)

-----------------------------------------------------------------------------
(***************************************************************************)
(* Pipeline (pipeline/index.ts)                                            *)
(***************************************************************************)

MaxStages == 3
MaxNexts == 2
MaxProcessCalls == 2

\* a middleware, by what it does when it is invoked: how many times it calls
\* and awaits next(), one call after the other, before it returns
Stages == [routes : {FALSE}, nexts : 0..MaxNexts]

\* createPipeline(): use(middleware)
use(middleware) ==
  /\ Len(middlewares) < MaxStages
  /\ middlewares' = Append(middlewares, middleware)
  /\ UNCHANGED <<runs, notPipe>>

\* next(), in the process call `run`: the middleware at index is invoked and
\* index moves on, or nothing is done when no middleware is left
next(run) ==
  IF run.index < Len(middlewares)
  THEN [run EXCEPT !.index = @ + 1,
                   !.log = Append(@, run.index + 1),
                   !.frames = Append(@, [stage |-> run.index + 1,
                                         nexts |-> middlewares[run.index + 1].nexts])]
  ELSE run

\* a call is over when the middleware process awaits has returned
Settled(run) == IF run.frames = <<>> THEN [run EXCEPT !.status = "done"] ELSE run

\* process(context): index = 0 and the first next()
process ==
  /\ Len(runs) < MaxProcessCalls
  /\ runs' = Append(runs, Settled(next([index |-> 0, log |-> <<>>, frames |-> <<>>,
                                         continued |-> {}, status |-> "running"])))
  /\ UNCHANGED <<middlewares, notPipe>>

\* the middleware invoked last in call r goes on: it calls next() once more,
\* or it returns to the next() that awaits it
middlewareStep(r) ==
  /\ runs[r].status = "running"
  /\ LET run == runs[r]
         top == Len(run.frames)
         frame == run.frames[top]
     IN runs' = [runs EXCEPT ![r] =
          IF frame.nexts > 0
          THEN next([run EXCEPT !.frames[top].nexts = @ - 1,
                                !.continued = @ \cup {frame.stage}])
          ELSE Settled([run EXCEPT !.frames = SubSeq(@, 1, top - 1)])]
  /\ UNCHANGED <<middlewares, notPipe>>

NextPipeline ==
  \/ \E middleware \in Stages : use(middleware)
  \/ process
  \/ \E r \in DOMAIN runs : middlewareStep(r)

-----------------------------------------------------------------------------
(***************************************************************************)
(* PluginManager (plugins/examplePlugin.ts)                                *)
(***************************************************************************)

MaxPlugins == 3
MaxMessages == 2

PluginNames == {"examplePlugin", "rate_limiting", "logging"}

\* the message contexts a process step can be given or can return
Contexts == {"context", "transformed"}
Null == "null"
Undefined == "undefined"

\* what one invocation of a plugin's process step does
Outcomes ==
  [kind : {"returns"}, value : Contexts \cup {Null}] \cup {[kind |-> "throws", value |-> Undefined]}

\* the names that have a factory and the names in a plugins map
FactoryNames == {pluginFactories[i].name : i \in 1..Len(pluginFactories)}
NamesIn(map) == {map[i].name : i \in 1..Len(map)}

\* Map.set: a name the map holds keeps its place and gets the new value
MapSet(map, plugin) ==
  IF plugin.name \in NamesIn(map)
  THEN [i \in 1..Len(map) |-> IF map[i].name = plugin.name THEN plugin ELSE map[i]]
  ELSE Append(map, plugin)

\* loadPlugin of one module: a module in the new format is refused when
\* its name has a factory and otherwise gets a factory and a config with
\* enabled: true; a legacy module is refused when its name is in the
\* plugins map and otherwise enters the map; a refusal is caught and logged
loadPlugin(name, hasProcess, legacy) ==
  /\ Len(pluginFactories) + Len(plugins) < MaxPlugins
  /\ IF legacy
     THEN /\ plugins' = IF name \in NamesIn(plugins) THEN plugins
                        ELSE Append(plugins, [name |-> name, hasProcess |-> hasProcess])
          /\ UNCHANGED <<pluginFactories, pluginConfigs>>
     ELSE IF name \in FactoryNames
     THEN UNCHANGED <<plugins, pluginFactories, pluginConfigs>>
     ELSE /\ pluginFactories' = Append(pluginFactories,
                                       [name |-> name, hasProcess |-> hasProcess])
          /\ pluginConfigs' = [pluginConfigs EXCEPT ![name] = "enabled"]
          /\ UNCHANGED plugins
  /\ UNCHANGED <<processing, pmLog, pluginCalls, lastConfigCall, lifeVars, notLife>>

\* loadPlugin of a module whose name is new, followed for a module in the
\* new format by the factory.create and plugins.set of initializePlugins
loadAndCreatePlugin(name, hasProcess, legacy) ==
  /\ Len(plugins) < MaxPlugins
  /\ name \notin NamesIn(plugins) \cup FactoryNames
  /\ plugins' = MapSet(plugins, [name |-> name, hasProcess |-> hasProcess])
  /\ pluginFactories' = IF legacy THEN pluginFactories
                        ELSE Append(pluginFactories,
                                    [name |-> name, hasProcess |-> hasProcess])
  /\ pluginConfigs' = IF legacy THEN pluginConfigs
                      ELSE [pluginConfigs EXCEPT ![name] = "enabled"]
  /\ UNCHANGED <<processing, pmLog, pluginCalls, lastConfigCall, lifeVars, notLife>>

\* the configs updatePluginConfig leaves and the value it returns: a name
\* without a config is refused
updatePluginConfig(name, enabled) ==
  IF pluginConfigs[name] = "absent"
  THEN [configs |-> pluginConfigs, ret |-> FALSE]
  ELSE [configs |-> [pluginConfigs EXCEPT
                       ![name] = IF enabled THEN "enabled" ELSE "disabled"],
        ret |-> TRUE]

NoConfigCall == [op |-> "none"]

enablePlugin(name) ==
  /\ pluginConfigs' = updatePluginConfig(name, TRUE).configs
  /\ lastConfigCall' = [op |-> "enablePlugin", name |-> name,
                        ret |-> updatePluginConfig(name, TRUE).ret]
  /\ UNCHANGED <<plugins, processing, pmLog, pluginCalls, notPlug>>

disablePlugin(name) ==
  /\ pluginConfigs' = updatePluginConfig(name, FALSE).configs
  /\ lastConfigCall' = [op |-> "disablePlugin", name |-> name,
                        ret |-> updatePluginConfig(name, FALSE).ret]
  /\ UNCHANGED <<plugins, processing, pmLog, pluginCalls, notPlug>>

\* the value safeExecutePluginMethod resolves with
safeExecutePluginMethod(outcome) ==
  IF outcome.kind = "throws" THEN Undefined ELSE outcome.value

Invoked_WhateverTheFlag(i) == plugins[i].hasProcess

\* whether processMessage invokes the process step of the plugin at position i
Invoked(i) ==
  /\ pluginConfigs[plugins[i].name] = "enabled"
  /\ plugins[i].hasProcess

RECURSIVE NextInvoked(_)
\* the first position from i on whose process step is invoked
NextInvoked(i) ==
  IF i > Len(plugins) THEN i
  ELSE IF Invoked(i) THEN i
  ELSE NextInvoked(i + 1)

IsDrop_Never(result) == FALSE

IsDrop(result) == result = Null

Idle == [status |-> "idle"]

\* the loop of processMessage from position i on, up to its next await or
\* to its return
Iterate(i, currentContext, log) ==
  LET j == NextInvoked(i) IN
  IF j > Len(plugins)
  THEN /\ processing' = [status |-> "returned", result |-> currentContext]
       /\ pmLog' = log
  ELSE /\ processing' = [status |-> "awaiting", pos |-> j,
                         currentContext |-> currentContext]
       /\ pmLog' = Append(log, [pos |-> j, plugin |-> plugins[j].name,
                                config |-> pluginConfigs[plugins[j].name],
                                received |-> currentContext,
                                outcome |-> "pending", result |-> "pending"])

processMessage(context) ==
  /\ processing.status # "awaiting"
  /\ pluginCalls < MaxMessages
  /\ pluginCalls' = pluginCalls + 1
  /\ Iterate(1, context, <<>>)
  /\ UNCHANGED <<plugins, pluginConfigs, lastConfigCall, notPlug>>

\* the awaited process step settles and the loop goes on
processSettles(outcome) ==
  /\ processing.status = "awaiting"
  /\ LET result == safeExecutePluginMethod(outcome)
         log == [pmLog EXCEPT ![Len(pmLog)].outcome = outcome.kind,
                              ![Len(pmLog)].result = result]
     IN IF IsDrop(result)
        THEN /\ processing' = [status |-> "returned", result |-> Null]
             /\ pmLog' = log
        ELSE Iterate(processing.pos + 1, result, log)
  /\ UNCHANGED <<plugins, pluginConfigs, pluginCalls, lastConfigCall, notPlug>>

-----------------------------------------------------------------------------
(* The lifecycle of the plugins: initializePlugins, startPlugins, dispose. *)
(* Every plugin defines onStart, onStop and dispose; a plugin in the new    *)
(* format defines onInitialize, a legacy plugin initialize and onError.     *)

\* what a lifecycle hook does when it is invoked
HookOutcomes == {"returns", "throws"}

HookFailureCaught_Never(outcome) == FALSE

\* safeExecutePluginMethod and the try blocks of initializePlugins catch
\* whatever a hook throws or rejects with
HookFailureCaught(outcome) == TRUE

NoLifecycle == [call |-> "none", hook |-> "none", status |-> "idle", pos |-> 0,
                log |-> <<>>]

\* a plugin without a factory is a legacy plugin
IsLegacy(plugin) == plugin.name \notin FactoryNames

HookEntry(name, hook, outcome) == [plugin |-> name, hook |-> hook, outcome |-> outcome]

RECURSIVE InitializeFrom(_, _, _, _)
\* the loops of initializePlugins from step k on, up to the next await or
\* to the return: the first loop creates the plugin of each factory, sets
\* it in the plugins map and awaits its onInitialize; the second loop goes
\* through the map, skips the names that have a factory, calls the legacy
\* initialize synchronously, which throws for the plugins in throwing, and
\* then awaits onError. The result is the call's state and the map.
InitializeFrom(k, throwing, log, map) ==
  LET factories == Len(pluginFactories) IN
  IF k <= factories
  THEN [life |-> [call |-> "initializePlugins", hook |-> "initialize",
                  status |-> "awaiting", pos |-> k,
                  log |-> Append(log, HookEntry(pluginFactories[k].name,
                                                "initialize", "pending"))],
        map |-> MapSet(map, pluginFactories[k])]
  ELSE IF k - factories > Len(map)
  THEN [life |-> [call |-> "initializePlugins", hook |-> "initialize",
                  status |-> "completed", pos |-> k, log |-> log],
        map |-> map]
  ELSE LET plugin == map[k - factories] IN
       IF ~IsLegacy(plugin)
       THEN InitializeFrom(k + 1, throwing, log, map)
       ELSE IF plugin.name \in throwing
       THEN [life |-> [call |-> "initializePlugins", hook |-> "initialize",
                       status |-> "awaiting", pos |-> k,
                       log |-> log \o <<HookEntry(plugin.name, "initialize", "throws"),
                                        HookEntry(plugin.name, "onError", "pending")>>],
             map |-> map]
       ELSE InitializeFrom(k + 1, throwing,
                           Append(log, HookEntry(plugin.name, "initialize", "returns")),
                           map)

RECURSIVE LoopFrom(_, _, _, _)
\* the loop of startPlugins, of stopPlugins or of dispose from position k of
\* the plugins map on, up to the next await or to the return; dispose
\* awaits stopPlugins and then goes through the map again
LoopFrom(op, hook, k, log) ==
  IF k <= Len(plugins)
  THEN [call |-> op, hook |-> hook, status |-> "awaiting", pos |-> k,
        log |-> Append(log, HookEntry(plugins[k].name, hook, "pending"))]
  ELSE IF op = "dispose" /\ hook = "stop"
  THEN LoopFrom(op, "dispose", 1, log)
  ELSE [call |-> op, hook |-> hook, status |-> "completed", pos |-> k, log |-> log]

\* the lifecycle hooks of one plugin among the entries of a log
HooksOf(name, entries) ==
  LET mine == SelectSeq(entries, LAMBDA en : en.plugin = name /\ en.hook # "onError")
  IN [j \in 1..Len(mine) |-> mine[j].hook]

\* what a step of a lifecycle call leaves behind: the hooks it invoked, the
\* initializations that threw, and after dispose the cleared maps
LifecycleEffects(before, map) ==
  LET added == SubSeq(lifecycle'.log, before + 1, Len(lifecycle'.log)) IN
  /\ hooksRun' = [name \in PluginNames |-> hooksRun[name] \o HooksOf(name, added)]
  /\ initFailed' = initFailed \cup
       {lifecycle'.log[j].plugin : j \in
          {j \in 1..Len(lifecycle'.log) : /\ lifecycle'.log[j].hook = "initialize"
                                         /\ lifecycle'.log[j].outcome = "throws"}}
  /\ IF lifecycle'.call = "dispose" /\ lifecycle'.status = "completed"
     THEN /\ plugins' = <<>>
          /\ pluginFactories' = <<>>
          /\ pluginConfigs' = [name \in PluginNames |-> "absent"]
     ELSE /\ plugins' = map
          /\ UNCHANGED <<pluginFactories, pluginConfigs>>
  /\ UNCHANGED <<processing, pmLog, pluginCalls, lastConfigCall, notLife>>

initializePlugins ==
  /\ lifecycle.status # "awaiting"
  /\ \E throwing \in SUBSET PluginNames :
       LET reached == InitializeFrom(1, throwing, <<>>, plugins) IN
       /\ lifecycle' = reached.life
       /\ LifecycleEffects(0, reached.map)

startPlugins ==
  /\ lifecycle.status # "awaiting"
  /\ lifecycle' = LoopFrom("startPlugins", "start", 1, <<>>)
  /\ LifecycleEffects(0, plugins)

dispose ==
  /\ lifecycle.status # "awaiting"
  /\ lifecycle' = LoopFrom("dispose", "stop", 1, <<>>)
  /\ LifecycleEffects(0, plugins)

\* the awaited hook settles and the loop goes on
hookSettles(outcome) ==
  /\ lifecycle.status = "awaiting"
  /\ LET log == [lifecycle.log EXCEPT ![Len(lifecycle.log)].outcome = outcome] IN
     IF outcome = "throws" /\ ~HookFailureCaught(outcome)
     THEN /\ lifecycle' = [lifecycle EXCEPT !.status = "threw", !.log = log]
          /\ LifecycleEffects(Len(lifecycle.log), plugins)
     ELSE IF lifecycle.call = "initializePlugins"
     THEN \E throwing \in SUBSET PluginNames :
            LET reached == InitializeFrom(lifecycle.pos + 1, throwing, log, plugins) IN
            /\ lifecycle' = reached.life
            /\ LifecycleEffects(Len(lifecycle.log), reached.map)
     ELSE /\ lifecycle' = LoopFrom(lifecycle.call, lifecycle.hook, lifecycle.pos + 1, log)
          /\ LifecycleEffects(Len(lifecycle.log), plugins)

-----------------------------------------------------------------------------
(***************************************************************************)
(* SecurityManager.validateHealthCheckAuth (security/securityManager.ts)   *)
(***************************************************************************)

\* the secrets the configuration can hold and the tokens a request can carry
Secrets == {Undefined, "", "test-secret", "your-secret-token", "test", "Test-Secret"}
Tokens == {Undefined, "", "test-secret", "wrong-secret", "your-secret-token",
           "Test-Secret", "test-secret ", "test"}

SecretMissing_Never(secret) == FALSE

\* !this.config.healthCheckSecret: undefined and the empty string are falsy
SecretMissing(secret) == secret = Undefined \/ secret = ""

validateHealthCheckAuth(token) ==
  IF ~healthConfig.enableHealthCheckAuth THEN TRUE
  ELSE IF SecretMissing(healthConfig.healthCheckSecret) THEN FALSE
  ELSE token = healthConfig.healthCheckSecret

NoAuthCall == [op |-> "none"]

validateHealthCheckAuthCall(token) ==
  /\ lastAuth' = [op |-> "validateHealthCheckAuth", token |-> token,
                  ret |-> validateHealthCheckAuth(token)]
  /\ UNCHANGED <<healthConfig, notHealth>>

\* the configuration main builds: ENABLE_HEALTH_CHECK_AUTH and
\* HEALTH_CHECK_SECRET are not set
InitHealth ==
  /\ healthConfig = [enableHealthCheckAuth |-> FALSE, healthCheckSecret |-> Undefined]
  /\ lastAuth = NoAuthCall

\* every configuration of the health-check auth
InitHealthAny ==
  /\ healthConfig \in [enableHealthCheckAuth : BOOLEAN, healthCheckSecret : Secrets]
  /\ lastAuth = NoAuthCall

NextHealth == \E token \in Tokens : validateHealthCheckAuthCall(token)

InitPlug ==
  /\ lifecycle = NoLifecycle
  /\ hooksRun = [name \in PluginNames |-> <<>>]
  /\ initFailed = {}
  /\ plugins = <<>>
  /\ pluginFactories = <<>>
  /\ pluginConfigs = [name \in PluginNames |-> "absent"]
  /\ processing = Idle
  /\ pmLog = <<>>
  /\ pluginCalls = 0
  /\ lastConfigCall = NoConfigCall

NextPlug ==
  \/ \E name \in PluginNames, hasProcess \in BOOLEAN, legacy \in BOOLEAN :
       loadAndCreatePlugin(name, hasProcess, legacy)
  \/ \E name \in PluginNames : enablePlugin(name)
  \/ \E name \in PluginNames : disablePlugin(name)
  \/ \E context \in Contexts : processMessage(context)
  \/ \E outcome \in Outcomes : processSettles(outcome)


-----------------------------------------------------------------------------
(* Specifications: one per component, the other components at rest. *)

InitApp == InitPlug /\ InitRouter /\ InitStore /\ InitHealth

Init == InitRM /\ InitEH /\ InitSMFixed /\ InitGate /\ InitNet /\ InitApp

SpecRM == Init /\ [][NextRM]_vars

SpecEH == Init /\ [][NextEH]_vars

InitRateLimit == InitRM /\ InitEH /\ InitSM /\ InitGate /\ InitNet /\ InitApp

SpecSM == InitRateLimit /\ [][NextSM]_vars

InitTransport == InitRM /\ InitEH /\ InitSMFixed /\ InitGateAny /\ InitNet /\ InitApp

SpecNet == InitTransport /\ [][NextNet]_vars

\* the SecurityManager's ip filter, under every list of rules
NextIPFilter ==
  \/ \E rule \in AddableRules :
       addIPRule(rule.address, rule.type, rule.expiresAt, rule.cidr)
  \/ \E ip \in IPs \ blockedIPs : blockIP(ip, 0)
  \/ \E ip \in blockedIPs : unblockIP(ip)
  \/ \E ip \in IPs : checkIPAccessCall(ip)
  \/ cleanupSweep
  \/ Tick

SpecIPFilter == InitTransport /\ [][NextIPFilter]_vars

\* the Security Gate: the connection limit and the SecurityPipeline
NextGate ==
  \/ \E ip \in IPs : checkConnectionLimit(ip)
  \/ \E ip \in IPs : releaseConnection(ip)
  \/ \E ip \in IPs, protocol \in Protocols, hasSocket \in BOOLEAN :
       securityPipelineProcess(ip, protocol, hasSocket)
  \/ \E ip \in IPs \ blockedIPs : blockIP(ip, 0)
  \/ \E ip \in IPs, type \in RuleTypes : addIPRule(ip, type, 0, NoCidr)

SpecGate == InitTransport /\ [][NextGate]_vars

\* the manual block list: blocks with and without a duration, and time
NextBlock ==
  \/ \E ip \in IPs, durationMs \in 0..MaxTime : blockIP(ip, durationMs)
  \/ \E ip \in IPs : unblockIP(ip)
  \/ \E timer \in blockTimers : blockTimerFires(timer)
  \/ Tick

SpecBlock == Init /\ [][NextBlock]_vars

\* executeWithRetry with retry budgets long enough for the delay to reach
\* maxDelay
NextBackoff ==
  \/ \E n \in 0..MaxBackoffRetries : executeWithRetryCall(n)
  \/ operationResolves
  \/ \E error \in PipelineErrors : operationRejects(error)
  \/ sleepElapsed

SpecBackoff == Init /\ [][NextBackoff]_vars

\* a TCP server on its own, as the integration tests run it
NextTcp ==
  \/ \E ip \in IPs : handleConnection(ip)
  \/ \E sessionId \in DOMAIN sockets, data \in Chunks : socketData(sessionId, data)
  \/ \E sessionId \in DOMAIN sockets : socketClose(sessionId)
  \/ \E sessionId \in DOMAIN sockets, error \in PipelineErrors :
       socketError(sessionId, error)
  \/ \E sessionId \in DOMAIN sockets : socketTimeout(sessionId)
  \/ tcpStop
  \/ tcpDispose
  \/ \E c \in inFlight : pipelineResolves(c)
  \/ \E c \in inFlight, error \in PipelineErrors : pipelineRejects(c, error)
  \/ \E c \in inFlight : retryInvokes(c)

\* every call that awaits the pipeline or a retry delay goes on
PipelineSettles ==
  \E c \in inFlight :
    \/ pipelineResolves(c)
    \/ \E error \in PipelineErrors : pipelineRejects(c, error)
    \/ retryInvokes(c)

SpecTcp == InitTransport /\ [][NextTcp]_vars /\ WF_vars(PipelineSettles)

\* the process from its start to its exit: the events of both servers, then
\* SIGINT or SIGTERM
NextShutdown ==
  \/ /\ shutdown = "running"
     /\ \/ \E ip \in IPs : handleConnection(ip)
        \/ \E sessionId \in DOMAIN sockets : socketClose(sessionId)
        \/ \E sessionId \in DOMAIN sockets : socketTimeout(sessionId)
        \/ \E ip \in IPs : handleMessage(ip)
        \/ \E c \in inFlight : pipelineResolves(c)
  \/ gracefulShutdown
  \/ containerDispose

SpecShutdown == InitTransport /\ [][NextShutdown]_vars

\* the session store's records of datagram peers, as time passes
NextStore ==
  \/ \E address \in IPs, port \in Ports : getOrCreateUdpSessionCall(address, port)
  \/ \E address \in IPs, port \in Ports : removeUdpSessionCall(address, port)
  \/ Tick

SpecStore == Init /\ [][NextStore]_vars

SpecPipeline == Init /\ [][NextPipeline]_vars

SpecPlug == Init /\ [][NextPlug]_vars

\* the plugin directory is read in one order
LoadOrder == <<"examplePlugin", "rate_limiting", "logging">>

\* main loads the plugins, initializes them, starts them and disposes of the
\* manager, in this order
NextLifecycle ==
  \/ /\ lifecycle.call = "none"
     /\ Len(pluginFactories) + Len(plugins) < Len(LoadOrder)
     /\ \E hasProcess \in BOOLEAN, legacy \in BOOLEAN :
          loadPlugin(LoadOrder[Len(pluginFactories) + Len(plugins) + 1],
                     hasProcess, legacy)
  \/ lifecycle.call = "none" /\ initializePlugins
  \/ /\ lifecycle.call = "initializePlugins"
     /\ lifecycle.status = "completed"
     /\ startPlugins
  \/ /\ lifecycle.call = "startPlugins"
     /\ lifecycle.status = "completed"
     /\ dispose
  \/ \E outcome \in HookOutcomes : hookSettles(outcome)

SpecLifecycle == Init /\ [][NextLifecycle]_vars

\* the plugin directory holds modules of any names and formats
NextLoad ==
  \/ /\ lifecycle.call = "none"
     /\ \E name \in PluginNames, hasProcess \in BOOLEAN, legacy \in BOOLEAN :
          loadPlugin(name, hasProcess, legacy)
  \/ lifecycle.call = "none" /\ initializePlugins
  \/ /\ lifecycle.call = "initializePlugins"
     /\ lifecycle.status = "completed"
     /\ startPlugins
  \/ \E outcome \in HookOutcomes : hookSettles(outcome)

SpecLoad == Init /\ [][NextLoad]_vars

InitAuth ==
  /\ InitRM /\ InitEH /\ InitSMFixed /\ InitGate /\ InitNet
  /\ InitPlug /\ InitRouter /\ InitStore /\ InitHealthAny

SpecHealth == InitAuth /\ [][NextHealth]_vars

\* processMessage is called from the moment the plugins are initialized
NextPluginLife ==
  \/ NextLifecycle
  \/ /\ lifecycle.call # "none"
     /\ ~(lifecycle.call = "initializePlugins" /\ lifecycle.status = "awaiting")
     /\ processMessage("context")
  \/ processSettles([kind |-> "returns", value |-> "context"])

SpecPluginLife == Init /\ [][NextPluginLife]_vars

InitRouting == InitRM /\ InitEH /\ InitSMFixed /\ InitGate /\ InitNet /\ InitPlug /\ InitRouterAny /\ InitStore
                 /\ InitHealth

SpecRouter == InitRouting /\ [][NextRouter]_vars

Next == NextRM \/ NextEH \/ NextSM \/ NextNet \/ NextIPFilter \/ NextGate \/ NextPlug \/ NextRouter \/ NextTcp
          \/ NextShutdown \/ NextStore \/ NextPipeline \/ NextPluginLife \/ NextLoad \/ NextHealth \/ NextBlock
          \/ NextBackoff

Spec == Init /\ [][Next]_vars

-----------------------------------------------------------------------------
(***************************************************************************)
(* Properties of the transports                                            *)
(***************************************************************************)

\* C1: every TCP chunk and UDP datagram handed to pipeline.process comes from
\* a peer for which the Security Gate has been run and has passed, and which
\* the gate's ip filter does not refuse at that moment.
C1_GateBeforePipeline ==
  \A h \in handed : h.gate = "passed" /\ ~h.refused

-----------------------------------------------------------------------------
(***************************************************************************)
(* Properties of the ResourceManager                                       *)
(***************************************************************************)

\* C2: the dispose action of every registered resource is invoked at most
\* once, over any interleaving of disposeResource, disposeResourcesByType and
\* disposeAllResources calls, also calls that start while an earlier dispose
\* of the resource is still awaited and calls made after a dispose threw.
C2_DisposeAtMostOnce ==
  \A id \in ResourceIds : disposeCalls[id] <= 1

\* C3: when disposeAllResources has completed, the stats it returns have
\* activeResources = 0, also when a dispose action threw; a second
\* disposeAllResources returns the same stats as the first.
C3_DisposeAllLeavesNoneActive ==
  lastResult.op = "disposeAllResources" =>
    /\ lastResult.ret.activeResources = 0
    /\ lastResult.previous # <<>> => lastResult.ret = lastResult.previous[1]

\* C4: when disposeResource(id) of a registered id has completed, the resource
\* is marked isDisposed whether its dispose action succeeded or threw, and a
\* disposeResource(id) made after one has completed returns true without
\* invoking the dispose action.
C4_DisposeMarksRegardless ==
  (lastResult.op = "disposeResource" /\ lastResult.found) =>
    /\ lastResult.isDisposed
    /\ lastResult.late => (lastResult.ret /\ ~lastResult.invoked)

-----------------------------------------------------------------------------
(***************************************************************************)
(* Properties of executeWithRetry                                          *)
(***************************************************************************)

NonRetryableKinds == {"validation_error", "plugin_error", "unknown_error"}

C7_RetryableKindAlwaysRetried ==
  (call.pc = "rejected" /\ call.routerError.type \in RetryableErrors)
    => call.attempt >= call.maxRetries

\* C8: an operation that throws plain Errors (no timeout, connection or
\* network marker in name or message) is retried: when it always fails it is
\* invoked exactly maxRetries + 1 times.
C8_PlainErrorRetried ==
  (call.pc = "rejected" /\ \A f \in call.failures : f.plain)
    => call.invocations = call.maxRetries + 1

-----------------------------------------------------------------------------
(***************************************************************************)
(* Properties of the rate limiter                                          *)
(***************************************************************************)

\* C9: with rate limiting enabled and a limit of N requests per window, a
\* checkRateLimit call for an identifier returns true exactly when it is
\* among the first N calls for that identifier in its window, whatever calls
\* are made for other identifiers.
C9_FirstNAllowedRestDenied ==
  (lastCheck.op = "checkRateLimit" /\ lastCheck.enabled /\ lastCheck.stable)
    => (lastCheck.allowed <=> lastCheck.nth <= lastCheck.limit)

\* C9's case: call N + 1 of a window is denied, while another identifier has
\* an entry of its own.
C9_Witness ==
  /\ lastCheck.op = "checkRateLimit"
  /\ lastCheck.enabled
  /\ lastCheck.stable
  /\ ~lastCheck.allowed
  /\ lastCheck.nth = lastCheck.limit + 1
  /\ \E other \in DOMAIN rateLimitCache :
       other # lastCheck.identifier /\ rateLimitCache[other].currentRequests >= 1

\* C10: a checkRateLimit call made for an identifier after its window has
\* elapsed returns true, also when the identifier had been blocked; the new
\* window starts at that call and the counter is 1 after it.
C10_ResetAfterWindow ==
  (lastCheck.op = "checkRateLimit" /\ lastCheck.enabled /\ lastCheck.reset)
    => /\ lastCheck.allowed
       /\ lastCheck.windowLeft = lastCheck.windowMs
       /\ lastCheck.countAfter = 1

\* C10's case: the identifier was blocked when its window elapsed.
C10_Witness ==
  /\ lastCheck.op = "checkRateLimit"
  /\ lastCheck.enabled
  /\ lastCheck.reset
  /\ lastCheck.wasBlocked
  /\ lastCheck.allowed

-----------------------------------------------------------------------------
(***************************************************************************)
(* Properties of the ip filter                                             *)
(***************************************************************************)

\* the rules that have not expired, by their place in the list
LiveRules == {i \in DOMAIN ipRules : ipRules[i].expiresAt = 0 \/ ipRules[i].expiresAt > now}

\* the live rules that match an address
Hits(ip) == {i \in LiveRules : matchesIPRule(ip, ipRules[i])}

\* this step is a call of checkIPAccess
IPCheckMade == lastIPCheck' # lastIPCheck

\* C11: with ip filtering enabled, a checkIPAccess call for an address that
\* matches no active rule is denied when an active whitelist rule exists,
\* also without blacklist rules and with the address not in the block set.
C11_WhitelistPresentDeniesUnmatched ==
  [][ ( /\ IPCheckMade
        /\ enableIPFiltering
        /\ \E i \in LiveRules : ipRules[i].type = "whitelist"
        /\ Hits(lastIPCheck'.ip) = {} )
      => ~lastIPCheck'.allowed ]_vars

\* C11's case: only whitelist rules, none matching, the address not blocked.
C11_Witness ==
  /\ lastIPCheck.op = "checkIPAccess"
  /\ lastIPCheck.filtering
  /\ ~lastIPCheck.blocked
  /\ ~lastIPCheck.blacklists
  /\ lastIPCheck.whitelists
  /\ lastIPCheck.first = "none"
  /\ ~lastIPCheck.allowed

\* the decision procedure of the ip filter
Decision(ip) ==
  IF ~enableIPFiltering THEN TRUE
  ELSE IF ip \in blockedIPs THEN FALSE
  ELSE IF Hits(ip) # {}
    THEN LET first == CHOOSE i \in Hits(ip) : \A j \in Hits(ip) : i <= j
         IN ipRules[first].type = "whitelist"
  ELSE ~(\E i \in LiveRules : ipRules[i].type = "whitelist")

\* C12: every checkIPAccess call returns what the decision procedure gives:
\* allow when filtering is disabled; else deny an address of the block set;
\* else the first rule in insertion order that has not expired and matches
\* decides, a whitelist rule allowing and a blacklist rule denying; else deny
\* when a whitelist rule that has not expired exists; else allow. Rules that
\* have expired have no part in it, swept or not.
C12_DecisionProcedure ==
  [][ IPCheckMade => lastIPCheck'.allowed = Decision(lastIPCheck'.ip) ]_vars

\* C12's case: an expired blacklist rule, not yet swept, matches the address
\* ahead of a live whitelist rule, and the address is allowed.
C12_Witness ==
  /\ lastIPCheck.op = "checkIPAccess"
  /\ lastIPCheck.filtering
  /\ ~lastIPCheck.blocked
  /\ lastIPCheck.stale = "blacklist"
  /\ lastIPCheck.first = "whitelist"
  /\ lastIPCheck.allowed

-----------------------------------------------------------------------------
(***************************************************************************)
(* Properties of the connection limit and of the SecurityPipeline          *)
(***************************************************************************)

C14_GateStopsAtFirstDenial ==
  lastGate.op = "process" =>
    /\ lastGate.result <=>
         (lastGate.ipAllowed /\ lastGate.rateAllowed /\ lastGate.connAllowed)
    /\ lastGate.rateRan <=> lastGate.ipAllowed
    /\ lastGate.connRan <=> (lastGate.ipAllowed /\ lastGate.rateAllowed)
    /\ ~lastGate.rateRan => lastGate.rateAfter = lastGate.rateBefore
    /\ ~lastGate.connRan => lastGate.connAfter = lastGate.connBefore

\* C14's case: the rate limit denies a TCP connection whose IP the filter
\* allowed, and the connection count is untouched.
C14_Witness ==
  /\ lastGate.op = "process"
  /\ lastGate.protocol = "tcp"
  /\ lastGate.hasSocket
  /\ lastGate.ipAllowed
  /\ ~lastGate.rateAllowed
  /\ ~lastGate.result
  /\ lastGate.connAfter = lastGate.connBefore

-----------------------------------------------------------------------------
(***************************************************************************)
(* Properties of the PluginManager                                         *)
(***************************************************************************)

\* C15: processMessage invokes the process steps of enabled plugins in load
\* order, and as soon as one of them returns null the call returns the drop
\* result and invokes no later plugin.
C15_DropStopsProcessing ==
  /\ \A i \in 1..Len(pmLog) :
       /\ pmLog[i].config = "enabled"
       /\ \A j \in 1..Len(pmLog) : i < j => pmLog[i].pos < pmLog[j].pos
  /\ \A i \in 1..Len(pmLog) :
       (pmLog[i].outcome = "returns" /\ pmLog[i].result = Null)
         => /\ i = Len(pmLog)
            /\ processing.status = "returned"
            /\ processing.result = Null

\* a plugin dropped the message while an enabled plugin was still to come
C15_Witness ==
  /\ processing.status = "returned"
  /\ processing.result = Null
  /\ Len(pmLog) >= 2
  /\ pmLog[Len(pmLog)].result = Null
  /\ \E k \in 1..Len(plugins) : k > pmLog[Len(pmLog)].pos /\ Invoked(k)

\* C16: after a plugin's process step throws, the next plugin receives the
\* context the failing plugin was given, and a call in which no plugin drops
\* the message returns a context.
C16_FailureKeepsPriorContext ==
  /\ \A i \in 1..Len(pmLog) :
       (pmLog[i].outcome = "throws" /\ i < Len(pmLog))
         => pmLog[i + 1].received = pmLog[i].received
  /\ (processing.status = "returned" /\ processing.result # Null)
       => processing.result \in Contexts

-----------------------------------------------------------------------------
(***************************************************************************)
(* Properties of the Router                                                *)
(***************************************************************************)

\* a route call was made
RouteCalled == routing' # routing

\* C17: with the rules of the default router, a payload of health or ping
\* is answered with OK and a newline, a payload of metrics or stats with the
\* session counts, and any other non-empty payload is echoed unchanged; one
\* rule fires.
C17_BuiltInRulesAnswer ==
  [][ ( /\ RouteCalled
        /\ routing'.status = "returned"
        /\ routes = createDefaultRouter
        /\ routing'.context.transport
        /\ routing'.context.data # "" )
      => LET data == Trim(routing'.context.data) IN
         /\ Len(routing'.invoked) = 1
         /\ routing'.written =
              IF data \in {"health", "ping"} THEN <<"OK\n">>
              ELSE IF data \in {"metrics", "stats"}
                   THEN <<"TCP: " \o ToString(getSessionCount.tcp) \o ", UDP: "
                            \o ToString(getSessionCount.udp) \o "\n">>
                   ELSE <<routing'.context.data>>
    ]_vars

\* C18: route invokes the handler of the first rule, in registration order,
\* whose predicate holds, and no other handler; it returns true when that
\* handler completes and rethrows when that handler throws; when no
\* predicate holds it invokes no handler and returns false.
C18_FirstMatchOnly ==
  [][ RouteCalled =>
        LET context == IF routing'.status = "returned" THEN {routing'.context}
                       ELSE RouteContexts
            matching(c) == {i \in 1..Len(routes) : RuleHolds(routes[i].rule, c)}
        IN \E c \in context :
             IF matching(c) = {}
             THEN /\ routing'.invoked = <<>>
                  /\ routing'.status = "returned"
                  /\ routing'.result = FALSE
             ELSE /\ Len(routing'.invoked) = 1
                  /\ routing'.invoked[1] \in matching(c)
                  /\ \A i \in matching(c) : routing'.invoked[1] <= i
                  /\ routing'.status \in {"returned", "rejected"}
                  /\ routing'.status = "returned" => routing'.result = TRUE
    ]_vars

\* after the routes were registered anew, the health check fired and
\* answered while the echo rule registered behind it held as well
C18_Witness ==
  /\ routing.status = "returned"
  /\ routing.result = TRUE
  /\ Len(routes) = 2
  /\ routes[1].name = "health_check"
  /\ routes[2].name = "echo"
  /\ routing.invoked = <<1>>
  /\ routing.written = <<"OK\n">>
  /\ RuleHolds(routes[2].rule, routing.context)

\* C18 as stated: a route call in which a predicate held returns true.
C18_MatchReturnsTrue == routing.status = "rejected" => routing.invoked = <<>>

-----------------------------------------------------------------------------
(***************************************************************************)
(* Properties of a TCP connection's chunks and teardown                    *)
(***************************************************************************)

\* C19: every chunk received on an accepted TCP connection is eventually
\* dispatched to the router and written back unchanged on the socket it
\* came from, as long as the server handles no error.
C19_ChunkEchoed ==
  \A sessionId \in SessionIds :
    (sessionId <= Len(received) /\ received[sessionId] # <<>>)
      ~> ( /\ sessionId <= Len(received)
           /\ \/ \E type \in ErrorTypes : serverErrorCounts.tcp[type] > 0
              \/ \E k \in 1..Len(socketWrites[sessionId]) :
                   socketWrites[sessionId][k] = received[sessionId][1].data )

\* C20: once the socket of an accepted TCP connection is closed, by its
\* peer, by a timeout or by the server's dispose, its connection resource is
\* eventually disposed and its session eventually removed from the session
\* store.
C20_ClosedConnectionCleanedUp ==
  \A sessionId \in SessionIds :
    ( /\ sessionId \in DOMAIN registry.tcp
      /\ ~sockets[sessionId].open )
      ~> ( /\ sessionId \in DOMAIN registry.tcp
           /\ registry.tcp[sessionId]
           /\ sessionId \notin sessions )

-----------------------------------------------------------------------------
(***************************************************************************)
(* Properties of the shutdown, of chunk order and of the session store     *)
(***************************************************************************)

\* the step of gracefulShutdown in which sessionStore.dispose() runs first
StoreCleared == shutdown = "running" /\ shutdown' # "running"

\* C21: graceful shutdown clears the session store only when both servers
\* have stopped accepting and every tracked connection resource of both
\* servers' registries has been disposed: the session store is never cleared
\* while a tracked connection resource is still undisposed.
C21_StoreClearedAfterConnections ==
  [][StoreCleared =>
       /\ tcpShuttingDown' /\ udpShuttingDown'
       /\ \A p \in DOMAIN registry : \A id \in DOMAIN registry[p] : registry[p][id]]_vars

\* C22: the chunks of one TCP connection are processed in arrival order:
\* while the executeWithRetry call of a chunk has not finished (it awaits the
\* pipeline or a retry delay), no later chunk of that connection has been
\* handed to the pipeline.
C22_ChunksInArrivalOrder ==
  \A sessionId \in DOMAIN received :
    \A earlier, later \in DOMAIN received[sessionId] :
      earlier < later =>
        ~\E c \in inFlight : c.cid = received[sessionId][earlier].cid

\* a step that is a getOrCreateUdpSession call (or changes nothing)
UdpSessionCalled == lastUdp'.op = "getOrCreateUdpSession" /\ now' = now

\* C23: a getOrCreateUdpSession call for a key the store holds returns the id
\* of the record it holds, adds no record and does not lower the record's
\* lastActivity; a call for another key leaves the record as it is. From call
\* to call, while it is not removed, a record keeps its id and its
\* lastActivity does not decrease.
C23_SameKeySameSession ==
  [][\A key \in DOMAIN udpSessions :
       /\ lastUdp'.op = "getOrCreateUdpSession" =>
            /\ key \in DOMAIN udpSessions'
            /\ udpSessions'[key].id = udpSessions[key].id
            /\ udpSessions'[key].lastActivity >= udpSessions[key].lastActivity
       /\ (UdpSessionCalled /\ lastUdp'.key = key) =>
            /\ lastUdp'.id = udpSessions[key].id
            /\ DOMAIN udpSessions' = DOMAIN udpSessions
       /\ (UdpSessionCalled /\ lastUdp'.key # key) =>
            udpSessions'[key] = udpSessions[key]]_vars

\* a call found the record of its key, made at an earlier time, and renewed
\* its lastActivity, while the store holds an older record of another key
C23_Witness ==
  /\ lastUdp.op = "getOrCreateUdpSession"
  /\ lastUdp.known
  /\ now > 0
  /\ udpSessions[lastUdp.key].id = lastUdp.id
  /\ udpSessions[lastUdp.key].lastActivity = now
  /\ \E other \in DOMAIN udpSessions :
       other # lastUdp.key /\ udpSessions[other].lastActivity < now

\* C24: the TCP session ids the session store holds are the session ids the
\* TCP server tracks as active connections, and they are the ids of the
\* accepted sockets that are open.
C24_OneSessionPerActiveSocket ==
  /\ sessions = activeConnections
  /\ sessions = {sessionId \in DOMAIN sockets : sockets[sessionId].open}

-----------------------------------------------------------------------------
(***************************************************************************)
(* Properties of registration and of disposeAllResources                   *)
(***************************************************************************)

\* a step that is a registerResource call
RegisterCalled == lastResult'.op = "registerResource" /\ opsStarted' = opsStarted + 1

\* C25: registerResource(r) leaves the registry as it is when r.id is
\* registered or disposeAllResources has been started; once disposeAllResources
\* has been started the registered ids stay the same, also while its dispose
\* actions are awaited.
C25_NoRegistrationAfterShutdown ==
  [][/\ (RegisterCalled /\ (isShuttingDown \/ lastResult'.rid \in RegisteredIds)) =>
          resources' = resources
     /\ isShuttingDown =>
          /\ isShuttingDown'
          /\ Len(resources') = Len(resources)
          /\ \A i \in DOMAIN resources :
               /\ resources'[i].id = resources[i].id
               /\ resources'[i].type = resources[i].type]_vars

\* registerResource was called with an unregistered id while the dispose
\* actions of disposeAllResources were awaited, and registered nothing
C25_Witness ==
  /\ lastResult.op = "registerResource"
  /\ ~lastResult.registered
  /\ lastResult.rid \notin RegisteredIds
  /\ isShuttingDown
  /\ \E t \in tasks : t.op = "disposeAllResources" /\ t.pending # {}

\* a step that starts a disposeAllResources call
DisposeAllCalled ==
  /\ opsStarted' = opsStarted + 1
  /\ \E t \in tasks' : t.op = "disposeAllResources" /\ t.tid = opsStarted

\* C26: disposeAllResources invokes the dispose action of every resource that
\* is not disposed, whichever of them throw, and it resolves.
C26_DisposeAllIsolatesFailures ==
  [][/\ DisposeAllCalled =>
          \A i \in DOMAIN resources :
            ~resources[i].isDisposed =>
              disposeCalls'[resources[i].id] = disposeCalls[resources[i].id] + 1
     /\ lastResult'.op = "disposeAllResources" => lastResult'.settled = "fulfilled"]_vars

\* disposeAllResources has resolved after the dispose action of one resource
\* threw and that of another succeeded
C26_Witness ==
  /\ lastResult.op = "disposeAllResources"
  /\ lastResult.settled = "fulfilled"
  /\ \E i, j \in DOMAIN resources :
       /\ ~resources[i].isDisposed /\ disposeCalls[resources[i].id] = 1
       /\ resources[j].isDisposed /\ disposeCalls[resources[j].id] = 1

-----------------------------------------------------------------------------
(***************************************************************************)
(* Properties of the Pipeline                                              *)
(***************************************************************************)

\* C27: in every process call, also one that runs while another does, the
\* stages are invoked in registration order and each at most once, a stage is
\* invoked only when the stage before it has invoked its continuation, and
\* when the call is over no stage has run after one that never invoked its
\* continuation.
C27_StagesInOrder ==
  \A r \in DOMAIN runs :
    LET run == runs[r] IN
    /\ \A a, b \in DOMAIN run.log : a < b => run.log[a] < run.log[b]
    /\ \A a \in DOMAIN run.log :
         run.log[a] > 1 => (run.log[a] - 1) \in run.continued
    /\ run.status = "done" =>
         \A a, b \in DOMAIN run.log :
           run.log[a] \notin run.continued => run.log[b] <= run.log[a]

-----------------------------------------------------------------------------
(***************************************************************************)
(* Properties of the PluginManager's enabled flags                         *)
(***************************************************************************)

\* an enablePlugin or disablePlugin call was made
ConfigCalled == lastConfigCall' # lastConfigCall

\* a processMessage call started or went on after an await
ProcessStepped == pluginCalls' # pluginCalls \/ processing' # processing

\* whether the plugin at position i has a process step and its flag is set
EnabledNow(i) ==
  pluginConfigs[plugins[i].name] = "enabled" /\ plugins[i].hasProcess

\* C28: the enabled flag is read when a plugin is reached: a process step
\* is invoked only on a plugin whose flag is set at that moment and no
\* plugin whose flag is set is passed over, so a plugin disabled with
\* disablePlugin is not invoked until enablePlugin sets its flag again; a
\* flag changes only through enablePlugin and disablePlugin, which return
\* true for a name with a config and set that name's flag alone, and return
\* false for an unknown name and change no flag.
C28_EnabledFlagReadWhenReached ==
  [][ /\ ConfigCalled =>
           LET c == lastConfigCall' IN
           /\ c.ret = (pluginConfigs[c.name] # "absent")
           /\ pluginConfigs' =
                IF c.ret
                THEN [pluginConfigs EXCEPT
                        ![c.name] = IF c.op = "enablePlugin" THEN "enabled"
                                    ELSE "disabled"]
                ELSE pluginConfigs
      /\ (~ConfigCalled /\ plugins' = plugins) => pluginConfigs' = pluginConfigs
      /\ ProcessStepped =>
           LET from == IF pluginCalls' # pluginCalls THEN 1 ELSE processing.pos + 1
               dropped == /\ processing'.status = "returned"
                          /\ processing'.result = Null
               upto == IF processing'.status = "awaiting" THEN processing'.pos - 1
                       ELSE Len(plugins)
           IN /\ processing'.status = "awaiting" => EnabledNow(processing'.pos)
              /\ ~dropped => \A i \in from..upto : ~EnabledNow(i)
    ]_vars

\* the second message passed over a disabled plugin and went on to invoke
\* the plugin that enablePlugin had just enabled
C28_Witness ==
  /\ pluginCalls = 2
  /\ lastConfigCall.op = "enablePlugin"
  /\ lastConfigCall.ret
  /\ \E k \in 1..Len(pmLog) :
       /\ pmLog[k].plugin = lastConfigCall.name
       /\ \E i \in 1..Len(plugins) :
            /\ i < pmLog[k].pos
            /\ plugins[i].hasProcess
            /\ pluginConfigs[plugins[i].name] = "disabled"
            /\ \A j \in 1..Len(pmLog) : pmLog[j].plugin # plugins[i].name

-----------------------------------------------------------------------------
(***************************************************************************)
(* Properties of the plugin lifecycle                                      *)
(***************************************************************************)

\* a lifecycle call returned in this step
LifecycleCompleted == lifecycle' # lifecycle /\ lifecycle'.status = "completed"

\* the hooks a lifecycle call invokes on every plugin
HooksOfCall(op) ==
  IF op = "initializePlugins" THEN {"initialize"}
  ELSE IF op = "startPlugins" THEN {"start"}
  ELSE {"stop", "dispose"}

\* how often a call invoked a hook on a plugin
Invocations(log, name, hook) ==
  Cardinality({j \in 1..Len(log) : log[j].plugin = name /\ log[j].hook = hook})

HookRank(hook) ==
  CASE hook = "initialize" -> 1
    [] hook = "start" -> 2
    [] hook = "stop" -> 3
    [] hook = "dispose" -> 4

\* whether a hook of a plugin was invoked and has settled
HasRun(name, hook) ==
  /\ \E j \in 1..Len(hooksRun[name]) : hooksRun[name][j] = hook
  /\ ~( /\ lifecycle.status = "awaiting"
        /\ lifecycle.log[Len(lifecycle.log)].plugin = name
        /\ lifecycle.log[Len(lifecycle.log)].hook = hook )

\* each plugin's hooks were invoked in the order initialize, start, stop, dispose
HooksInOrder ==
  \A name \in PluginNames : \A a, b \in 1..Len(hooksRun[name]) :
    a < b => HookRank(hooksRun[name][a]) < HookRank(hooksRun[name][b])

\* a process step is invoked on a plugin whose start hook has run and whose
\* stop hook has not been invoked
ProcessBetweenStartAndStop ==
  (ProcessStepped /\ processing'.status = "awaiting")
    => LET name == plugins[processing'.pos].name IN
       /\ HasRun(name, "start")
       /\ \A j \in 1..Len(hooksRun[name]) : hooksRun[name][j] # "stop"

\* the start hook is not invoked on a plugin whose initialization threw
NoStartAfterFailedInitialization ==
  \A name \in PluginNames :
    Len(hooksRun'[name]) > Len(hooksRun[name])
      => \/ hooksRun'[name][Len(hooksRun'[name])] # "start"
         \/ name \notin initFailed

\* C30: each plugin's hooks are invoked in the order initialize, start,
\* stop, dispose; its process step is invoked only after its start hook has
\* run and before its stop hook; and its start hook is not invoked when its
\* initialization failed.
C30_HooksInLifecycleOrder ==
  [][ /\ HooksInOrder'
      /\ ProcessBetweenStartAndStop
      /\ NoStartAfterFailedInitialization ]_vars

-----------------------------------------------------------------------------
(***************************************************************************)
(* Properties of plugin loading                                            *)
(***************************************************************************)

\* the names of the modules loaded so far, whatever their format
LoadedNames == FactoryNames \cup NamesIn(plugins)

\* C31: a module is accepted only under a name that no loaded module has,
\* whatever the formats of the two; no two plugins in the map share a name;
\* and a plugin in the map stays the one registered under its name while
\* further modules are loaded and the plugins are initialized and started.
C31_DuplicateNamesRejected ==
  [][ /\ Len(pluginFactories') > Len(pluginFactories)
           => pluginFactories'[Len(pluginFactories')].name \notin LoadedNames
      /\ (lifecycle.call = "none" /\ lifecycle' = lifecycle /\ Len(plugins') > Len(plugins))
           => plugins'[Len(plugins')].name \notin LoadedNames
      /\ \A i, j \in 1..Len(plugins') : plugins'[i].name = plugins'[j].name => i = j
      /\ lifecycle'.call # "dispose"
           => \A i \in 1..Len(plugins) : plugins'[i] = plugins[i]
    ]_vars

-----------------------------------------------------------------------------
(***************************************************************************)
(* Properties of the health-check auth                                     *)
(***************************************************************************)

\* C32: validateHealthCheckAuth returns true for every token when auth is
\* disabled, false for every token, undefined included, when auth is
\* enabled and no secret is configured (the secret is undefined or empty),
\* and otherwise true exactly when the token equals the secret.
C32_HealthCheckAuthDecision ==
  lastAuth # NoAuthCall
    => LET secret == healthConfig.healthCheckSecret IN
       /\ ~healthConfig.enableHealthCheckAuth => lastAuth.ret
       /\ (healthConfig.enableHealthCheckAuth /\ secret \in {Undefined, ""})
            => ~lastAuth.ret
       /\ (healthConfig.enableHealthCheckAuth /\ secret \notin {Undefined, ""})
            => (lastAuth.ret <=> lastAuth.token = secret)

\* auth is enabled without a secret and a request without a token was refused
C32_Witness ==
  /\ healthConfig.enableHealthCheckAuth
  /\ healthConfig.healthCheckSecret = Undefined
  /\ lastAuth # NoAuthCall
  /\ lastAuth.token = Undefined
  /\ ~lastAuth.ret

-----------------------------------------------------------------------------
(***************************************************************************)
(* Properties of the retries of the TCP data handler                       *)
(***************************************************************************)

\* the calls whose operation is invoked in this step, for the first time or again
AttemptsStarted ==
  {c \in inFlight' : /\ c.pc = "awaiting"
                     /\ c \notin inFlight}

\* C33: a pipeline attempt for a chunk, the first one or a retry, is
\* started only while the chunk's TCP session is in the session store and
\* its socket is open.
C33_NoAttemptAfterSessionRemoved ==
  [][ \A c \in AttemptsStarted :
        c.protocol = "tcp"
          => LET sessionId ==
                   CHOOSE s \in DOMAIN received' :
                     \E k \in 1..Len(received'[s]) : received'[s][k].cid = c.cid
             IN /\ sessionId \in sessions
                /\ sockets[sessionId].open
    ]_vars

-----------------------------------------------------------------------------
(***************************************************************************)
(* Properties of the manual block list                                     *)
(***************************************************************************)

\* C34: the block list follows the call made last for an IP: after blockIP
\* without a duration the IP is blocked, after blockIP with a duration it
\* is blocked until that duration has passed, whatever timers of earlier
\* calls are pending, and after unblockIP it is not blocked; a blocked IP
\* is denied by checkIPAccess.
C34_BlockFollowsLastCall ==
  \A ip \in IPs :
    /\ blockedUntil[ip] = Forever => ip \in blockedIPs
    /\ (blockedUntil[ip].kind = "until" /\ now < blockedUntil[ip].t) => ip \in blockedIPs
    /\ blockedUntil[ip] = Unblocked => ip \notin blockedIPs
    /\ (enableIPFiltering /\ ip \in blockedIPs) => ~checkIPAccess(ip)

-----------------------------------------------------------------------------
(***************************************************************************)
(* Properties of the TCP server's resource registry                        *)
(***************************************************************************)

\* C35: a connection resource that has been disposed is removed from the
\* registry of the TCP server's ResourceManager, at once or later.
C35_DisposedResourceLeavesRegistry ==
  \A sessionId \in 1..MaxSockets :
    (sessionId \in DOMAIN registry.tcp /\ registry.tcp[sessionId])
      ~> (sessionId \notin DOMAIN registry.tcp)

-----------------------------------------------------------------------------
(***************************************************************************)
(* Properties of the SecurityManager's periodic sweep                      *)
(***************************************************************************)

\* an IP rule whose expiresAt lies in the past at time t
ExpiredRuleIn(rules, t) ==
  \E k \in 1..Len(rules) : rules[k].expiresAt # 0 /\ rules[k].expiresAt < t

\* an entry whose window reset time has passed at time t: a call made for the
\* identifier after that time would have moved resetTime beyond it
IdleEntryIn(cache, t) ==
  \E identifier \in DOMAIN cache : t > cache[identifier].resetTime

SweepLeavesNoExpiredRule == [][cleanupSweep => ~ExpiredRuleIn(ipRules', now)]_vars

\* C36: a sweep leaves no IP rule whose expiresAt is in the past and no
\* rate-limit entry whose window reset time has passed.
C36_SweepPurgesExpiredAndIdle ==
  [][cleanupSweep => /\ ~ExpiredRuleIn(ipRules', now)
                     /\ ~IdleEntryIn(rateLimitCache', now)]_vars

\* C37: a checkRateLimit call for an identifier setRateLimit was called for
\* is judged against the maxRequests of the last such call.
C37_CustomLimitGoverns ==
  [][\A identifier \in RateIds :
       (checkRateLimit(identifier) /\ enableRateLimiting
          /\ customLimit[identifier] # 0)
         => lastCheck'.limit = customLimit[identifier]]_vars

-----------------------------------------------------------------------------
(***************************************************************************)
(* Properties of the servers' error counters                               *)
(***************************************************************************)

\* the attempt that fails with this error is the message's last
FinallyFails(c, error) ==
  \/ BudgetExhausted(c.attempt, DefaultMaxRetries)
  \/ ~shouldRetry(AsRouterError(error), RetryableErrors)

\* C38: a message whose processing finally fails adds exactly 1 to the
\* counter of its error's kind, and a failure that is retried or an attempt
\* that succeeds adds nothing.
C38_OneCountPerFailedMessage ==
  [][\A c \in inFlight :
       /\ pipelineResolves(c) => serverErrorCounts' = serverErrorCounts
       /\ \A error \in PipelineErrors :
            pipelineRejects(c, error) =>
              serverErrorCounts' =
                IF FinallyFails(c, error)
                  THEN [serverErrorCounts EXCEPT ![c.protocol] =
                          [@ EXCEPT ![AsRouterError(error).type] = @ + 1]]
                  ELSE serverErrorCounts]_vars

-----------------------------------------------------------------------------
(***************************************************************************)
(* Properties of the rate-limit entries                                    *)
(***************************************************************************)

\* the entries no setRateLimit call has touched: those that checkRateLimit
\* calls, window resets and sweeps alone have made
CheckedOnly == {identifier \in DOMAIN rateLimitCache : customLimit[identifier] = 0}

EntriesWithinBounds ==
  \A identifier \in CheckedOnly :
    LET rule == rateLimitCache[identifier]
    IN /\ rule.currentRequests <= rule.maxRequests + 1
       /\ rule.blocked => rule.currentRequests > rule.maxRequests

BlockedCallNotCounted ==
  \A identifier \in DOMAIN rateLimitCache :
    (checkRateLimit(identifier) /\ enableRateLimiting
       /\ rateLimitCache[identifier].blocked
       /\ ~WindowExpired(rateLimitCache[identifier], now))
      => /\ ~lastCheck'.allowed
         /\ rateLimitCache'[identifier].currentRequests =
              rateLimitCache[identifier].currentRequests

\* C39: an entry made by checkRateLimit calls, window resets and sweeps has
\* currentRequests <= maxRequests + 1 and is blocked only with currentRequests
\* > maxRequests; a call made while the entry is blocked and its window has
\* not elapsed is denied and leaves the counter as it is.
C39_EntryWithinBounds == []EntriesWithinBounds /\ [][BlockedCallNotCounted]_vars

\* C39's case: a call was denied because the entry was blocked, within the
\* window, and the counter stands at maxRequests + 1.
C39_Witness ==
  /\ lastCheck.op = "checkRateLimit"
  /\ lastCheck.enabled
  /\ lastCheck.wasBlocked
  /\ ~lastCheck.reset
  /\ ~lastCheck.allowed
  /\ lastCheck.identifier \in CheckedOnly
  /\ rateLimitCache[lastCheck.identifier].blocked
  /\ rateLimitCache[lastCheck.identifier].currentRequests =
       rateLimitCache[lastCheck.identifier].maxRequests + 1

-----------------------------------------------------------------------------
(***************************************************************************)
(* Properties of the retry delays                                          *)
(***************************************************************************)

\* min(baseDelay * backoffMultiplier^k, maxDelay)
BackoffDelay(k) ==
  IF BaseDelay * BackoffMultiplier^k <= MaxDelay
    THEN BaseDelay * BackoffMultiplier^k
    ELSE MaxDelay

DefaultDelays == <<1000, 2000, 4000>>

\* a failed attempt is followed by a wait: the delay taken before retry
\* number call.attempt
DelayTaken ==
  (call.pc = "awaiting" /\ call'.pc = "sleeping")
    => /\ call'.delay = BackoffDelay(call.attempt)
       /\ call'.delay >= call.delay
       /\ call'.delay <= MaxDelay
       /\ call.attempt < Len(DefaultDelays)
            => call'.delay = DefaultDelays[call.attempt + 1]

\* no wait follows the final attempt
NoDelayAfterFinalAttempt ==
  call.pc = "sleeping" => call.attempt < call.maxRetries

\* C40: before retry number k executeWithRetry waits min(baseDelay *
\* backoffMultiplier^k, maxDelay) ms: 1000, 2000, 4000 for the first three;
\* the delays of one call never decrease, none exceeds maxDelay, and no delay
\* is taken after the final attempt.
C40_ExponentialBackoffDelays == [][DelayTaken]_vars /\ []NoDelayAfterFinalAttempt

\* C40's case: the call waits before retry number 5 and later ones, where
\* baseDelay * backoffMultiplier^k is above maxDelay.
C40_Witness ==
  /\ call.pc = "sleeping"
  /\ call.attempt >= 5
  /\ call.delay = MaxDelay
  /\ BaseDelay * BackoffMultiplier^call.attempt > MaxDelay

=============================================================================
